---- MODULE Spec2Model ----
(***************************************************************************)
(* A model of the corset constraint compiler: the builtin typing table,    *)
(* the symbol table with its alias resolution, and the computation engine  *)
(* of the ConstraintSet (sorted, sorting auxiliaries, interleaved and      *)
(* composite columns).                                                     *)
(*                                                                         *)
(* Each part of the compiler has its own specification (SpecTyping,        *)
(* SpecAlias, SpecSort, SpecInterleave, SpecComposite); the variables of   *)
(* the other parts rest at their idle value.                               *)
(***************************************************************************)
EXTENDS Integers, Sequences, FiniteSets, TLC

VARIABLES
    \* Builtin::typing
    tf,         \* the builtin whose typing is computed
    targs,      \* the argument types handed to typing
    tret,       \* the type typing returned for targs (NoType before the call)
    tlow,       \* the argument types before the last raise of an argument
    tprev,      \* the type typing returned for tlow
    \* the symbol table and the passes of the compiler over it
    tables,     \* the scopes: local_context, symbols and parent of each
    ctx,        \* the scope the pass at work is in
    phase,      \* "definitions", "generator", "finalized" or "failed"
    err,        \* the error that failed the compile
    seen,       \* whether the sources hold a defmodule
    last,       \* the form handled last, and what its names resolved to before it
    constraints, \* the nodes of the constraints the generator pass has built
    \* the ConstraintSet the computation engine works on
    modules,      \* the ColumnSet: the column of every handle
    computations, \* the ComputationTable, in registration order
    _spilling,    \* the memo of the spilling of the modules
    outcome,      \* the computation run last and its result
    reads,        \* the rows of the columns the composite run last has read
    visits,       \* the computations the compute_all run last visited: index, result
    runs,         \* the number of runs of compute_all
    prior,        \* the ColumnSet before the compute_all run last
    raw_len,      \* the raw length recorded for the modules
    stack,        \* the calls of compute in progress, the innermost last
    \* the generator pass at work on one form
    form,       \* the form handed to apply or to reduce
    result,     \* what it returned: a node, an error, or nothing yet
    \* make: the passes of the compiler over the forms of a source
    asts,       \* the forms of the source, in order
    scopes,     \* the symbol table: the root scope and the scopes of the modules
    scope,      \* the scope the pass at work declares and resolves in
    pass,       \* "definitions", "generator", "finalize" or "done"
    pos,        \* the number of forms the pass at work has handled
    failure,    \* the error that failed the compile
    registered, \* the computation table hanging off the root scope
    compiled    \* the constraints the generator pass built, then the ConstraintSet

typingVars == <<tf, targs, tret, tlow, tprev>>

aliasVars == <<tables, ctx, phase, err, seen, last, constraints>>

driverVars == <<visits, runs, prior, raw_len, stack>>

computeVars == <<modules, computations, _spilling, outcome, reads, driverVars>>

lowerVars == <<form, result>>

compileVars == <<asts, scopes, scope, pass, pos, failure, registered, compiled>>

frontVars == <<lowerVars, compileVars>>

vars == <<typingVars, aliasVars, computeVars, frontVars>>

(***************************************************************************)
(* Bounds of the model.                                                    *)
(***************************************************************************)
\* the longest argument vector handed to a builtin
MaxArgs == 3

\* the most pairs one defalias form declares
MaxPairs == 2

\* the most forms of the sources the definitions pass handles
MaxForms == 4

\* the most constraints of the sources
MaxConstraints == 1

\* the base of a byte, the bytes of the canonical representation of a field
\* element, and the low bytes the sorting constraints keep of it
ByteBase == 2

ReprBytes == 4

NDeltaBytes == 2

\* the most rows of a column of a trace
MaxLen == 2

\* the largest shift of a composite column, which is the most spilling
MaxSpilling == 1

(***************************************************************************)
(* Helpers.                                                                *)
(***************************************************************************)
Max(a, b) == IF a >= b THEN a ELSE b

Min(a, b) == IF a <= b THEN a ELSE b

Abs(a) == IF a < 0 THEN 0 - a ELSE a

RECURSIVE Sum(_, _)
\* the sum of f[1..n]
Sum(f, n) == IF n = 0 THEN 0 ELSE Sum(f, n - 1) + f[n]

SeqsUpTo(S, n) == UNION {[1..k -> S] : k \in 0..n}

(***************************************************************************)
(* Types (compiler/types.rs, which is not part of the sources at hand: the *)
(* lattice is the one spec.md section 3 gives).                            *)
(***************************************************************************)
Magmas == <<"Boolean", "Nibble", "Byte", "Integer", "Any">>

Scales == <<"Scalar", "Column", "ArrayColumn">>

MagmaSet == {Magmas[i] : i \in DOMAIN Magmas}

RankIn(seq, x) == CHOOSE i \in DOMAIN seq : seq[i] = x

MagmaRank(m) == RankIn(Magmas, m)

ScaleRank(s) == RankIn(Scales, s)

Scalar(m) == [scale |-> "Scalar", magma |-> m]

Column(m) == [scale |-> "Column", magma |-> m]

ArrayColumn(m) == [scale |-> "ArrayColumn", magma |-> m]

List(m) == [scale |-> "List", magma |-> m]

\* the types an argument of a builtin can have
ArgTypes == {[scale |-> Scales[i], magma |-> m] : i \in DOMAIN Scales, m \in MagmaSet}

INFIMUM == Scalar("Boolean")

NoType == [scale |-> "None", magma |-> "None"]

\* Type::max: the join of the lattice, Scalar < Column < ArrayColumn for each magma
TypeMax(a, b) ==
    [scale |-> IF ScaleRank(a.scale) >= ScaleRank(b.scale) THEN a.scale ELSE b.scale,
     magma |-> IF MagmaRank(a.magma) >= MagmaRank(b.magma) THEN a.magma ELSE b.magma]

\* Type::same_scale
same_scale(t, m) == [scale |-> t.scale, magma |-> m]

\* Type::is_bool
is_bool(t) == t.magma = "Boolean"

\* a <= b in the type lattice; a List compares with a List only
TypeLeq(a, b) ==
    /\ MagmaRank(a.magma) <= MagmaRank(b.magma)
    /\ IF a.scale = "List" \/ b.scale = "List"
       THEN a.scale = b.scale
       ELSE ScaleRank(a.scale) <= ScaleRank(b.scale)

RECURSIVE FoldMax(_, _)
\* argtype.iter().fold(init, |a, b| a.max(*b))
FoldMax(init, ts) ==
    IF ts = <<>> THEN init ELSE FoldMax(TypeMax(init, Head(ts)), Tail(ts))

\* argtype.iter().max().cloned().unwrap_or(Type::INFIMUM)
IterMax(ts) == IF ts = <<>> THEN INFIMUM ELSE FoldMax(Head(ts), Tail(ts))

(***************************************************************************)
(* Builtins (compiler/generator.rs).                                       *)
(***************************************************************************)
Builtin ==
    {"Add", "Sub", "Mul", "Exp", "Shift", "Neg", "Inv", "Not",
     "Nth", "Len", "Eq", "Begin", "IfZero", "IfNotZero"}

\* FuncVerifier::arity of a builtin, and Arity::validate of n arguments
arity(b, n) ==
    CASE b \in {"Add", "Sub", "Mul", "Begin"} -> n >= 1
      [] b \in {"Exp", "Eq"} -> n = 2
      [] b \in {"Neg", "Inv", "Not", "Len"} -> n = 1
      [] b \in {"Shift", "Nth"} -> n = 2
      [] b \in {"IfZero", "IfNotZero"} -> n >= 2 /\ n <= 3

\* the positional alternative sets of validate_types
expected_t(b) ==
    CASE b \in {"Add", "Sub", "Mul"} -> <<{Scalar("Any"), Column("Any")}>>
      [] b = "Exp" -> <<{Scalar("Any"), Column("Any")}, {Scalar("Any")}>>
      [] b = "Eq" -> <<{Column("Any"), Scalar("Any")}>>
      [] b = "Not" -> <<{Scalar("Boolean"), Column("Boolean")}>>
      [] b = "Neg" -> <<{Scalar("Any"), Column("Any")}>>
      [] b = "Inv" -> <<{Column("Any")}>>
      [] b = "Shift" -> <<{Column("Any")}, {Scalar("Any")}>>
      [] b = "Nth" -> <<{ArrayColumn("Any")}, {Scalar("Any")}>>
      [] b \in {"IfZero", "IfNotZero"} ->
            <<{Scalar("Any"), Column("Any"), List("Any")},
              {Scalar("Any"), Column("Any"), List("Any")}>>
      [] b = "Begin" -> <<{Scalar("Any"), Column("Any"), List("Any")}>>
      [] b = "Len" -> <<{ArrayColumn("Any")}>>

\* compatible_with (compiler/types.rs, not part of the sources at hand): every
\* argument has the scale of one alternative of its position and a magma below
\* it; the last position stands for the arguments past it
compatible_with(expected, args_t) ==
    \A i \in DOMAIN args_t :
        \E e \in expected[Min(i, Len(expected))] :
            /\ args_t[i].scale = e.scale
            /\ MagmaRank(args_t[i].magma) <= MagmaRank(e.magma)

\* a mutant of typing: Boolean is taken to be stable under the additive builtins
typing_stable(b, argtype) ==
    CASE b \in {"Add", "Sub", "Neg", "Inv"} -> FoldMax(INFIMUM, argtype)
      [] b = "Exp" -> argtype[1]
      [] b = "Eq" -> IterMax(argtype)
      [] b = "Not" -> same_scale(IterMax(argtype), "Boolean")
      [] b = "Mul" -> IterMax(argtype)
      [] b \in {"IfZero", "IfNotZero"} ->
            TypeMax(argtype[2], IF Len(argtype) >= 3 THEN argtype[3] ELSE INFIMUM)
      [] b = "Begin" -> List(FoldMax(INFIMUM, argtype).magma)
      [] b = "Nth" -> Column(argtype[1].magma)
      [] b = "Shift" -> argtype[1]
      [] b = "Len" -> Scalar("Integer")

\* Builtin::typing
typing(b, argtype) ==
    CASE b \in {"Add", "Sub", "Neg", "Inv"} ->
            LET x == FoldMax(INFIMUM, argtype)
            IN  IF x = Scalar("Boolean") THEN Scalar("Integer")
                ELSE IF x = Column("Boolean") THEN Column("Integer")
                ELSE x
      [] b = "Exp" -> argtype[1]
      [] b = "Eq" -> IterMax(argtype)
      [] b = "Not" -> same_scale(IterMax(argtype), "Boolean")
      [] b = "Mul" -> IterMax(argtype)
      [] b \in {"IfZero", "IfNotZero"} ->
            TypeMax(argtype[2], IF Len(argtype) >= 3 THEN argtype[3] ELSE INFIMUM)
      [] b = "Begin" -> List(FoldMax(INFIMUM, argtype).magma)
      [] b = "Nth" -> Column(argtype[1].magma)
      [] b = "Shift" -> argtype[1]
      [] b = "Len" -> Scalar("Integer")

\* the types one step above t in the lattice: the next magma, or the next scale
Covers(t) ==
    {u \in ArgTypes :
        \/ u.scale = t.scale /\ MagmaRank(u.magma) = MagmaRank(t.magma) + 1
        \/ u.magma = t.magma /\ ScaleRank(u.scale) = ScaleRank(t.scale) + 1}

(***************************************************************************)
(* The symbol table (SymbolTable of parser.rs) and the passes that fill    *)
(* and read it (compiler/definitions.rs, compiler/generator.rs,            *)
(* compiler/mod.rs).                                                       *)
(***************************************************************************)
Names == {"a", "b", "c"}

\* the root scope, the scope of the module and the scope of a function call
ScopeIds == {"root", "m", "fn"}

NoNode == [class |-> "None"]

\* Expression::Column of a handle
ColumnNode(module, name) == [class |-> "Column", module |-> module, name |-> name]

NoSymbol == [class |-> "None"]

\* Symbol::Alias
Alias(to) == [class |-> "Alias", to |-> to]

\* Symbol::Final
Final(node) == [class |-> "Final", node |-> node]

Ok(node) == [ok |-> TRUE, node |-> node]

Err(e) == [ok |-> FALSE, err |-> e]

\* SymbolTable::new_root, SymbolTable::new_derived
NewTable(parent, local_context) ==
    [local_context |-> local_context,
     symbols |-> [n \in Names |-> NoSymbol],
     parent |-> parent]

NoContext == [n \in Names |-> NoNode]

RECURSIVE _resolve_symbol(_, _, _, _)
RECURSIVE resolve_symbol(_, _, _)
\* a mutant of _resolve_symbol: the target of an alias is looked up one link deep
_resolve_symbol_shallow(tabs, s, name, ax) ==
    IF name \in ax
    THEN Err("CircularAlias")
    ELSE LET sym == tabs[s].symbols[name]
         IN  CASE sym.class = "Alias" ->
                    IF tabs[s].symbols[sym.to].class = "Alias"
                    THEN Err("UnknownSymbol")
                    ELSE _resolve_symbol(tabs, s, sym.to, ax \cup {name})
               [] sym.class = "Final" -> Ok(sym.node)
               [] OTHER ->
                    IF tabs[s].parent = "none"
                    THEN Err("UnknownSymbol")
                    ELSE resolve_symbol(tabs, tabs[s].parent, name)

\* SymbolTable::_resolve_symbol
_resolve_symbol(tabs, s, name, ax) ==
    IF name \in ax
    THEN Err("CircularAlias")
    ELSE LET sym == tabs[s].symbols[name]
         IN  CASE sym.class = "Alias" -> _resolve_symbol(tabs, s, sym.to, ax \cup {name})
               [] sym.class = "Final" -> Ok(sym.node)
               [] OTHER ->
                    IF tabs[s].parent = "none"
                    THEN Err("UnknownSymbol")
                    ELSE resolve_symbol(tabs, tabs[s].parent, name)

\* SymbolTable::resolve_symbol
resolve_symbol(tabs, s, name) ==
    IF tabs[s].local_context[name] # NoNode
    THEN Ok(tabs[s].local_context[name])
    ELSE _resolve_symbol(tabs, s, name, {})

\* SymbolTable::insert_symbol: the tables after it, and its result
insert_symbol(tabs, s, symbol, node) ==
    IF tabs[s].symbols[symbol] # NoSymbol
    THEN [tabs |-> tabs, res |-> Err("DuplicateDefinition")]
    ELSE [tabs |-> [tabs EXCEPT ![s].symbols[symbol] = Final(node)], res |-> Ok(NoNode)]

\* SymbolTable::insert_alias
insert_alias(tabs, s, from, to) ==
    IF tabs[s].symbols[from] # NoSymbol
    THEN [tabs |-> tabs, res |-> Err("DuplicateDefinition")]
    ELSE [tabs |-> [tabs EXCEPT ![s].symbols[from] = Alias(to)], res |-> Ok(NoNode)]

\* a mutant of the DefAlias arm: the alias is inserted without resolving its target
reduce_DefAlias_unresolved(tabs, s, from, to) == insert_alias(tabs, s, from, to)

\* definitions.rs, reduce, Token::DefAlias: the target is resolved, then the
\* alias is inserted
reduce_DefAlias(tabs, s, from, to) ==
    LET r == resolve_symbol(tabs, s, to)
    IN  IF ~r.ok THEN [tabs |-> tabs, res |-> r] ELSE insert_alias(tabs, s, from, to)

RECURSIVE reduce_DefAliases(_, _, _, _)
\* definitions.rs, reduce, Token::DefAliases: the fold reduces every alias of
\* the form, also after one failed, and returns the first error
reduce_DefAliases(tabs, s, aliases, ax) ==
    IF aliases = <<>>
    THEN [tabs |-> tabs, res |-> ax]
    ELSE LET r == reduce_DefAlias(tabs, s, Head(aliases)[1], Head(aliases)[2])
         IN  reduce_DefAliases(r.tabs, s, Tail(aliases), IF ax.ok THEN r.res ELSE ax)

\* what every name resolves to from scope s: "ok" or the error
Resolution(tabs, s) ==
    [n \in Names |->
        LET r == resolve_symbol(tabs, s, n) IN IF r.ok THEN "ok" ELSE r.err]

NoForm == [op |-> "None", n |-> 0, pairs |-> <<>>, before |-> [n \in Names |-> "ok"]]

\* the record of a form: how many forms the definitions pass has handled,
\* and, for a defalias form, what the names resolved to before it
Form(op, pairs) ==
    [op |-> op,
     n |-> IF phase = "definitions" /\ op # "StartGenerator" THEN last.n + 1 ELSE last.n,
     pairs |-> pairs,
     before |-> IF op = "DefAliases" THEN Resolution(tables, ctx) ELSE NoForm.before]

\* the module a scope declares its columns in
ModuleOf(s) == IF s = "root" THEN "prelude" ELSE s

AliasPairs == Names \X Names

AliasIdle ==
    /\ tables = <<>>
    /\ ctx = "none"
    /\ phase = "idle"
    /\ err = "none"
    /\ seen = FALSE
    /\ last = NoForm
    /\ constraints = <<>>

NoOutcome == [op |-> "None", i |-> 0, res |-> "none"]

\* compute_all has not run
DriverIdle ==
    /\ visits = <<>>
    /\ runs = 0
    /\ prior = <<>>
    /\ raw_len = <<>>
    /\ stack = <<>>

ComputeIdle ==
    /\ modules = <<>>
    /\ computations = <<>>
    /\ _spilling = <<>>
    /\ outcome = NoOutcome
    /\ reads = {}
    /\ DriverIdle

LowerIdle ==
    /\ form = NoNode
    /\ result = NoNode

CompileIdle ==
    /\ asts = <<>>
    /\ scopes = <<>>
    /\ scope = "none"
    /\ pass = "idle"
    /\ pos = 0
    /\ failure = "none"
    /\ registered = <<>>
    /\ compiled = <<>>

FrontIdle == LowerIdle /\ CompileIdle

TypingIdle ==
    /\ tf = "Len"
    /\ targs = <<>>
    /\ tret = NoType
    /\ tlow = <<>>
    /\ tprev = NoType

\* a builtin and an argument vector of a length its arity admits
InitTyping ==
    /\ tf \in Builtin
    /\ targs \in SeqsUpTo(ArgTypes, MaxArgs)
    /\ arity(tf, Len(targs))
    /\ tret = NoType
    /\ tlow = <<>>
    /\ tprev = NoType
    /\ AliasIdle
    /\ ComputeIdle
    /\ FrontIdle

\* typing is called on the argument types
CallTyping ==
    /\ tret = NoType
    /\ tret' = typing(tf, targs)
    /\ UNCHANGED <<tf, targs, tlow, tprev, aliasVars, computeVars, frontVars>>

\* one argument type is raised by one step of the lattice and typing is called again
RaiseArgument ==
    /\ tret # NoType
    /\ \E i \in DOMAIN targs : \E u \in Covers(targs[i]) :
          /\ targs' = [targs EXCEPT ![i] = u]
          /\ tlow' = targs
          /\ tprev' = tret
          /\ tret' = typing(tf, targs')
    /\ UNCHANGED <<tf, aliasVars, computeVars, frontVars>>

NextTyping ==
    \/ CallTyping
    \/ RaiseArgument

SpecTyping == InitTyping /\ [][NextTyping]_vars

\* compiler::make: a fresh root scope; the scope of the module and the scope
\* of a call are derived from it when the sources reach them
InitAlias ==
    /\ tables = [s \in ScopeIds |->
                    NewTable(IF s = "root" THEN "none" ELSE "root", NoContext)]
    /\ ctx = "root"
    /\ phase = "definitions"
    /\ err = "none"
    /\ seen = FALSE
    /\ last = NoForm
    /\ constraints = <<>>
    /\ TypingIdle
    /\ ComputeIdle
    /\ FrontIdle

\* the result of a form of a pass: an error fails the compile
Settle(res) ==
    /\ phase' = IF res.ok THEN phase ELSE "failed"
    /\ err' = IF res.ok THEN err ELSE res.err

\* definitions.rs, reduce, Token::DefModule
DefModule ==
    /\ phase = "definitions"
    /\ last.n < MaxForms
    /\ ctx' = "m"
    /\ seen' = TRUE
    /\ last' = Form("DefModule", <<>>)
    /\ UNCHANGED <<tables, phase, err, constraints, typingVars, computeVars, frontVars>>

\* definitions.rs, reduce, Token::DefColumn
DefColumn ==
    /\ phase = "definitions"
    /\ last.n < MaxForms
    /\ \E col \in Names :
          LET r == insert_symbol(tables, ctx, col, ColumnNode(ModuleOf(ctx), col))
          IN  /\ tables' = r.tabs
              /\ Settle(r.res)
              /\ last' = Form("DefColumn", <<<<col, col>>>>)
    /\ UNCHANGED <<ctx, seen, constraints, typingVars, computeVars, frontVars>>

\* definitions.rs, reduce, Token::DefAliases and Token::DefAlias
DefAliases ==
    /\ phase = "definitions"
    /\ last.n < MaxForms
    /\ \E k \in 1..MaxPairs : \E aliases \in [1..k -> AliasPairs] :
          LET r == reduce_DefAliases(tables, ctx, aliases, Ok(NoNode))
          IN  /\ tables' = r.tabs
              /\ Settle(r.res)
              /\ last' = Form("DefAliases", aliases)
    /\ UNCHANGED <<ctx, seen, constraints, typingVars, computeVars, frontVars>>

\* compiler::make: the definitions pass is over, generator::pass starts from
\* the root scope
StartGenerator ==
    /\ phase = "definitions"
    /\ phase' = "generator"
    /\ ctx' = "root"
    /\ last' = Form("StartGenerator", <<>>)
    /\ UNCHANGED <<tables, err, seen, constraints, typingVars, computeVars, frontVars>>

\* generator.rs, reduce_toplevel, Token::DefModule
GenDefModule ==
    /\ phase = "generator"
    /\ seen
    /\ ctx' = "m"
    /\ last' = Form("GenDefModule", <<>>)
    /\ UNCHANGED <<tables, phase, err, seen, constraints, typingVars, computeVars, frontVars>>

\* generator.rs, reduce_toplevel, Token::DefConstraint of a body that is a
\* symbol: reduce resolves it in the current scope
GenConstraint ==
    /\ phase = "generator"
    /\ Len(constraints) < MaxConstraints
    /\ \E name \in Names :
          LET r == resolve_symbol(tables, ctx, name)
          IN  /\ Settle(r)
              /\ constraints' = IF r.ok THEN Append(constraints, r.node) ELSE constraints
              /\ last' = Form("GenConstraint", <<<<name, name>>>>)
    /\ UNCHANGED <<tables, ctx, seen, typingVars, computeVars, frontVars>>

\* parser.rs, Compiler::apply, FunctionClass::UserDefined, in a constraint
\* (f arg) of a function (defun (f param) body) whose body is a symbol: the
\* argument is reduced in the current scope, the body in a scope derived from
\* it that binds the parameter and is dropped when the call returns
GenCall ==
    /\ phase = "generator"
    /\ Len(constraints) < MaxConstraints
    /\ \E param \in Names, arg \in Names, body \in Names :
          LET a == resolve_symbol(tables, ctx, arg)
              bound == [NoContext EXCEPT ![param] = a.node]
              tabs == [tables EXCEPT !["fn"] = NewTable(ctx, bound)]
              r == IF a.ok THEN resolve_symbol(tabs, "fn", body) ELSE a
          IN  /\ Settle(r)
              /\ constraints' = IF r.ok THEN Append(constraints, r.node) ELSE constraints
              /\ last' = Form("GenCall", <<<<param, arg>>, <<body, body>>>>)
    /\ UNCHANGED <<tables, ctx, seen, typingVars, computeVars, frontVars>>

\* compiler::make: the passes returned no error, the ConstraintSet is built
Finalize ==
    /\ phase = "generator"
    /\ phase' = "finalized"
    /\ last' = Form("Finalize", <<>>)
    /\ UNCHANGED <<tables, ctx, err, seen, constraints, typingVars, computeVars, frontVars>>

NextAlias ==
    \/ DefModule
    \/ DefColumn
    \/ DefAliases
    \/ StartGenerator
    \/ GenDefModule
    \/ GenConstraint
    \/ GenCall
    \/ Finalize

SpecAlias == InitAlias /\ [][NextAlias]_vars

(***************************************************************************)
(* The computation engine (ConstraintSet of compiler/generator.rs).  The   *)
(* field Fr is scaled down: its elements are 0..FieldModulus-1, a byte is  *)
(* a digit in base ByteBase, the canonical representation has ReprBytes    *)
(* bytes and the sorting constraints keep its NDeltaBytes low bytes.       *)
(***************************************************************************)
RECURSIVE Pow(_, _)
Pow(b, n) == IF n = 0 THEN 1 ELSE b * Pow(b, n - 1)

\* the modulus of Fr: below ByteBase^ReprBytes, above ByteBase^NDeltaBytes
FieldModulus == Pow(ByteBase, ReprBytes) - 3

Fr == 0..(FieldModulus - 1)

\* add_assign, sub_assign, mul_assign and negate of Fr
add_assign(a, b) == (a + b) % FieldModulus

sub_assign(a, b) == (a - b) % FieldModulus

mul_assign(a, b) == (a * b) % FieldModulus

negate(a) == (FieldModulus - a) % FieldModulus

\* Option: None, Some(v) and unwrap
None == {}

Some(v) == {v}

unwrap(o) == CHOOSE v \in o : TRUE

Zeros(n) == [i \in 1..n |-> 0]

\* Handle::new
Handle(module, name) == [module |-> module, name |-> name]

\* a column: its kind, its value with the spilling rows in front, and the
\* number of these rows
NewColumn(kind) == [kind |-> kind, value |-> <<>>, spilling |-> 0, computed |-> FALSE]

is_computed(col) == col.computed

padded_len(col) == Len(col.value)

len(col) == Len(col.value) - col.spilling

\* Column::get(i, wrap = false)
get(col, i) ==
    IF 0 - col.spilling <= i /\ i < len(col)
    THEN Some(col.value[i + col.spilling + 1])
    ELSE None

set_raw_value(col, value, spilling) ==
    [col EXCEPT !.value = value, !.spilling = spilling, !.computed = TRUE]

\* an atomic column filled from a trace and padded with the spilling rows
Filled(data, spilling) ==
    set_raw_value(NewColumn("Atomic"), Zeros(spilling) \o data, spilling)

\* Expression: a constant, a column, a column shifted by a constant, and a
\* builtin applied to two of these
Const(v) == [class |-> "Const", value |-> v]

ColumnExp(h) == [class |-> "Column", handle |-> h]

ShiftExp(h, k) == [class |-> "Funcall", func |-> "Shift", args |-> <<ColumnExp(h), Const(k)>>]

Funcall(f, args) == [class |-> "Funcall", func |-> f, args |-> args]

IsShift(e) == e.class = "Funcall" /\ e.func = "Shift"

RECURSIVE dependencies(_)
\* Node::dependencies: the columns of an expression
dependencies(e) ==
    CASE e.class = "Const" -> {}
      [] e.class = "Column" -> {e.handle}
      [] IsShift(e) -> dependencies(e.args[1])
      [] OTHER -> UNION {dependencies(e.args[k]) : k \in DOMAIN e.args}

RECURSIVE Shifts(_)
\* the constant offsets of the shifts of an expression
Shifts(e) ==
    CASE e.class \in {"Const", "Column"} -> {}
      [] IsShift(e) -> {e.args[2].value} \cup Shifts(e.args[1])
      [] OTHER -> UNION {Shifts(e.args[k]) : k \in DOMAIN e.args}

SetMin(S) == CHOOSE x \in S : \A y \in S : x <= y

SetMax(S) == CHOOSE x \in S : \A y \in S : x >= y

\* Node::past_spill, Node::future_spill
past_spill(e) == SetMin(Shifts(e) \cup {0})

future_spill(e) == SetMax(Shifts(e) \cup {0})

RECURSIVE eval(_, _, _)
\* Node::eval with wrap = false over the columns cols: a read out of range
\* gives None, and so does every expression over it
eval(e, i, cols) ==
    CASE e.class = "Const" -> Some(e.value % FieldModulus)
      [] e.class = "Column" -> get(cols[e.handle], i)
      [] IsShift(e) -> eval(e.args[1], i + e.args[2].value, cols)
      [] OTHER ->
            LET x == eval(e.args[1], i, cols)
                y == eval(e.args[2], i, cols)
            IN  IF x = None \/ y = None THEN None
                ELSE CASE e.func = "Add" -> Some(add_assign(unwrap(x), unwrap(y)))
                       [] e.func = "Sub" -> Some(sub_assign(unwrap(x), unwrap(y)))
                       [] e.func = "Mul" -> Some(mul_assign(unwrap(x), unwrap(y)))

RECURSIVE ReadsAt(_, _)
\* the reads the column getter is called for while eval is at row i
ReadsAt(e, i) ==
    CASE e.class = "Const" -> {}
      [] e.class = "Column" -> {[handle |-> e.handle, row |-> i]}
      [] IsShift(e) -> ReadsAt(e.args[1], i + e.args[2].value)
      [] OTHER -> UNION {ReadsAt(e.args[k], i) : k \in DOMAIN e.args}

\* the variants of Computation
Composite(target, exp) == [kind |-> "Composite", target |-> target, exp |-> exp]

Interleaved(target, froms) == [kind |-> "Interleaved", target |-> target, froms |-> froms]

Sorted(froms, tos) == [kind |-> "Sorted", froms |-> froms, tos |-> tos]

SortingConstraints(ats, eq, delta, delta_bytes, signs, froms, sorted) ==
    [kind |-> "SortingConstraints", ats |-> ats, eq |-> eq, delta |-> delta,
     delta_bytes |-> delta_bytes, signs |-> signs, froms |-> froms, sorted |-> sorted]

CyclicFrom(target, froms, modulo) ==
    [kind |-> "CyclicFrom", target |-> target, froms |-> froms, modulo |-> modulo]

Range(seq) == {seq[k] : k \in DOMAIN seq}

\* the columns a computation fills
Targets(comp) ==
    CASE comp.kind \in {"Composite", "Interleaved", "CyclicFrom"} -> {comp.target}
      [] comp.kind = "Sorted" -> Range(comp.tos)
      [] comp.kind = "SortingConstraints" ->
            Range(comp.ats) \cup {comp.eq, comp.delta} \cup Range(comp.delta_bytes)

\* ComputationTable::dependencies: the computation that fills target
ComputationOf(comps, target) == {k \in DOMAIN comps : target \in Targets(comps[k])}

\* the ConstraintSet as a value
CS(m, c, sp) == [modules |-> m, computations |-> c, _spilling |-> sp]

\* the result of a method of the ConstraintSet: the set after it, its result
Result(cs, res) == [cs |-> cs, res |-> res]

\* HashMap::insert
Put(f, k, v) == [x \in DOMAIN f \cup {k} |-> IF x = k THEN v ELSE f[x]]

\* a mutant of SpillingOf: the future spill is left out
SpillingOf_past(comps, m) ==
    Abs(SetMin({past_spill(comps[k].exp) : k \in {j \in DOMAIN comps :
                    comps[j].kind = "Composite" /\ comps[j].target.module = m}} \cup {0}))

\* the spilling spilling_or_insert computes for module m on a first call
SpillingOf(comps, m) ==
    LET exps == {comps[k].exp : k \in {j \in DOMAIN comps :
                    comps[j].kind = "Composite" /\ comps[j].target.module = m}}
    IN  Max(Abs(SetMin({past_spill(e) : e \in exps} \cup {0})),
            SetMax({future_spill(e) : e \in exps} \cup {0}))

\* a mutant of spilling_or_insert: the composite computations of every
\* module are counted
spilling_or_insert_every(cs, m) ==
    IF m \in DOMAIN cs._spilling
    THEN Result(cs, cs._spilling[m])
    ELSE LET exps == {cs.computations[k].exp : k \in {j \in DOMAIN cs.computations :
                          cs.computations[j].kind = "Composite"}}
             sp == Max(Abs(SetMin({past_spill(e) : e \in exps} \cup {0})),
                       SetMax({future_spill(e) : e \in exps} \cup {0}))
         IN  Result([cs EXCEPT !._spilling = Put(cs._spilling, m, sp)], sp)

\* ConstraintSet::spilling_or_insert: the set after it, and the spilling
spilling_or_insert(cs, m) ==
    IF m \in DOMAIN cs._spilling
    THEN Result(cs, cs._spilling[m])
    ELSE LET sp == SpillingOf(cs.computations, m)
         IN  Result([cs EXCEPT !._spilling = Put(cs._spilling, m, sp)], sp)

RECURSIVE CmpFrom(_, _, _, _)
\* the comparison of rows i and j of compute_sorted, from column l onwards
CmpFrom(from_cols, l, i, j) ==
    IF l > Len(from_cols) THEN "Equal"
    ELSE LET x_i == unwrap(get(from_cols[l], i))
             x_j == unwrap(get(from_cols[l], j))
         IN  IF x_i < x_j THEN "Less"
             ELSE IF x_i > x_j THEN "Greater"
             ELSE CmpFrom(from_cols, l + 1, i, j)

\* a mutant of Cmp: the rows are compared on the first column alone
Cmp_first(from_cols, i, j) == CmpFrom(SubSeq(from_cols, 1, 1), 1, i, j)

\* the closure compute_sorted hands to sort_by
Cmp(from_cols, i, j) == CmpFrom(from_cols, 1, i, j)

RECURSIVE InsertBy(_, _, _)
\* x is put in front of the first row that is greater than it
InsertBy(seq, x, from_cols) ==
    IF seq = <<>> THEN <<x>>
    ELSE IF Cmp(from_cols, x, Head(seq)) = "Less" THEN <<x>> \o seq
    ELSE <<Head(seq)>> \o InsertBy(Tail(seq), x, from_cols)

RECURSIVE sort_by(_, _)
\* slice::sort_by, a stable sort, of the rows 0..n-1
sort_by(n, from_cols) ==
    IF n = 0 THEN <<>> ELSE InsertBy(sort_by(n - 1, from_cols), n - 1, from_cols)

RECURSIVE compute_column(_, _)
RECURSIVE compute(_, _)
RECURSIVE compute_columns(_, _)
\* `for c in cs { self.compute_column(c)? }`
compute_columns(cs, handles) ==
    IF handles = <<>> THEN Result(cs, "ok")
    ELSE LET r == compute_column(cs, Head(handles))
         IN  IF r.res # "ok" THEN r ELSE compute_columns(r.cs, Tail(handles))

\* the handles of a set, in the order the set is iterated in
RECURSIVE SeqOf(_)
SeqOf(S) == IF S = {} THEN <<>> ELSE LET x == CHOOSE x \in S : TRUE IN <<x>> \o SeqOf(S \ {x})

SameAll(seq) == \A k \in DOMAIN seq : seq[k] = seq[1]

\* a mutant of interleaved_row: the columns are laid one after the other
interleaved_row_concat(cols, froms, k) ==
    LET L == len(cols[froms[1]])
    IN  unwrap(get(cols[froms[(k \div L) + 1]], k % L))

\* compute_interleaved: row k, from 0, of the target
interleaved_row(cols, froms, k) ==
    LET count == Len(froms)
        i == k \div count
        j == k % count
    IN  unwrap(get(cols[froms[j + 1]], i))

\* a mutant of compute_interleaved: the sources are read as they are, without
\* being computed first
compute_interleaved_unordered(cs, froms, target) ==
    LET lens == [k \in DOMAIN froms |-> len(cs.modules[froms[k]])]
        final_len == Sum(lens, Len(lens))
        values == [k \in 1..final_len |-> interleaved_row(cs.modules, froms, k - 1)]
    IN  IF ~SameAll(lens) THEN Result(cs, "IncoherentLengths")
        ELSE Result([cs EXCEPT !.modules[target] = set_raw_value(@, values, 0)], "ok")

\* ConstraintSet::compute_interleaved
compute_interleaved(cs, froms, target) ==
    LET r == compute_columns(cs, froms)
        lens == [k \in DOMAIN froms |-> len(r.cs.modules[froms[k]])]
        final_len == Sum(lens, Len(lens))
        values == [k \in 1..final_len |-> interleaved_row(r.cs.modules, froms, k - 1)]
    IN  IF r.res # "ok" THEN r
        ELSE IF ~SameAll(lens) THEN Result(r.cs, "IncoherentLengths")
        ELSE Result([r.cs EXCEPT !.modules[target] = set_raw_value(@, values, 0)], "ok")

\* a mutant of compute_sorted: the rows are put in descending order
compute_sorted_descending(cs, froms, tos) ==
    LET s == spilling_or_insert(cs, froms[1].module)
        spilling == s.res
        r == compute_columns(s.cs, froms)
        from_cols == [k \in DOMAIN froms |-> r.cs.modules[froms[k]]]
        ascending == sort_by(len(from_cols[1]), from_cols)
        sorted_is == [i \in DOMAIN ascending |-> ascending[Len(ascending) + 1 - i]]
        value(k) == Zeros(spilling) \o
                        [i \in DOMAIN sorted_is |-> unwrap(get(from_cols[k], sorted_is[i]))]
        to_k(h) == CHOOSE k \in DOMAIN tos : tos[k] = h
    IN  IF r.res # "ok" THEN r
        ELSE IF ~SameAll([k \in DOMAIN froms |-> padded_len(from_cols[k])])
        THEN Result(r.cs, "IncoherentLengths")
        ELSE Result([r.cs EXCEPT !.modules =
                        [h \in DOMAIN @ |->
                            IF h \in Range(tos)
                            THEN set_raw_value(@[h], value(to_k(h)), spilling)
                            ELSE @[h]]],
                    "ok")

\* ConstraintSet::compute_sorted
compute_sorted(cs, froms, tos) ==
    LET s == spilling_or_insert(cs, froms[1].module)
        spilling == s.res
        r == compute_columns(s.cs, froms)
        from_cols == [k \in DOMAIN froms |-> r.cs.modules[froms[k]]]
        sorted_is == sort_by(len(from_cols[1]), from_cols)
        value(k) == Zeros(spilling) \o
                        [i \in DOMAIN sorted_is |-> unwrap(get(from_cols[k], sorted_is[i]))]
        to_k(h) == CHOOSE k \in DOMAIN tos : tos[k] = h
    IN  IF r.res # "ok" THEN r
        ELSE IF ~SameAll([k \in DOMAIN froms |-> padded_len(from_cols[k])])
        THEN Result(r.cs, "IncoherentLengths")
        ELSE Result([r.cs EXCEPT !.modules =
                        [h \in DOMAIN @ |->
                            IF h \in Range(tos)
                            THEN set_raw_value(@[h], value(to_k(h)), spilling)
                            ELSE @[h]]],
                    "ok")

\* a mutant of compute_composite: the spilling rows in front are zero
compute_composite_padded(cs, exp, target) ==
    LET s == spilling_or_insert(cs, target.module)
        spilling == s.res
        cols_in_expr == dependencies(exp)
        r == compute_columns(s.cs, SeqOf(cols_in_expr))
        length == SetMax({len(r.cs.modules[h]) : h \in cols_in_expr})
        values == [k \in 1..(length + spilling) |->
                     LET v == eval(exp, k - 1 - spilling, r.cs.modules)
                     IN  IF v = None \/ k <= spilling THEN 0 ELSE unwrap(v)]
    IN  IF r.res # "ok" THEN r
        ELSE Result([r.cs EXCEPT !.modules[target] = set_raw_value(@, values, spilling)], "ok")

\* ConstraintSet::compute_composite
compute_composite(cs, exp, target) ==
    LET s == spilling_or_insert(cs, target.module)
        spilling == s.res
        cols_in_expr == dependencies(exp)
        r == compute_columns(s.cs, SeqOf(cols_in_expr))
        length == SetMax({len(r.cs.modules[h]) : h \in cols_in_expr})
        values == [k \in 1..(length + spilling) |->
                     LET v == eval(exp, k - 1 - spilling, r.cs.modules)
                     IN  IF v = None THEN 0 ELSE unwrap(v)]
    IN  IF r.res # "ok" THEN r
        ELSE Result([r.cs EXCEPT !.modules[target] = set_raw_value(@, values, spilling)], "ok")

\* a mutant of compute_cyclic: the length of the source is not checked
compute_cyclic_unchecked(cs, froms, to, modulo) ==
    LET s == spilling_or_insert(cs, froms[1].module)
        spilling == s.res
        r == compute_columns(s.cs, froms)
        length == len(r.cs.modules[froms[1]])
        value == Zeros(spilling) \o [k \in 1..length |-> (k - 1) % modulo]
    IN  IF r.res # "ok" THEN r
        ELSE Result([r.cs EXCEPT !.modules[to] = set_raw_value(@, value, spilling)], "ok")

\* ConstraintSet::compute_cyclic
compute_cyclic(cs, froms, to, modulo) ==
    LET s == spilling_or_insert(cs, froms[1].module)
        spilling == s.res
        r == compute_columns(s.cs, froms)
        length == len(r.cs.modules[froms[1]])
        value == Zeros(spilling) \o [k \in 1..length |-> (k - 1) % modulo]
    IN  IF r.res # "ok" THEN r
        ELSE IF length < modulo THEN Result(r.cs, "CyclicTooShort")
        ELSE Result([r.cs EXCEPT !.modules[to] = set_raw_value(@, value, spilling)], "ok")

\* the rows compute_composite reads of the columns of exp
CompositeReads(cs, exp, target) ==
    LET spilling == spilling_or_insert(cs, target.module).res
        length == SetMax({len(cs.modules[h]) : h \in dependencies(exp)})
    IN  UNION {ReadsAt(exp, i) : i \in (0 - spilling)..(length - 1)}

\* compute_sorting_auxs: whether column l differs at row i from its previous
\* row; a row that is missing makes them equal
differs(sorted_cols, l, i) ==
    LET v1 == get(sorted_cols[l], i)
        v2 == get(sorted_cols[l], i - 1)
    IN  IF v1 = None \/ v2 = None THEN FALSE ELSE unwrap(v1) # unwrap(v2)

RECURSIVE at_row_all(_, _, _, _, _)
\* a mutant of at_row: every column that differs is marked
at_row_all(sorted_cols, n, l, i, found) ==
    IF l > n THEN <<>>
    ELSE <<IF differs(sorted_cols, l, i) THEN 1 ELSE 0>>
            \o at_row_all(sorted_cols, n, l + 1, i, found)

RECURSIVE at_row(_, _, _, _, _)
\* compute_sorting_auxs, `Compute @s`: the @ of the columns l..n at row i
at_row(sorted_cols, n, l, i, found) ==
    IF l > n THEN <<>>
    ELSE LET v == IF differs(sorted_cols, l, i) /\ ~found THEN 1 ELSE 0
         IN  <<v>> \o at_row(sorted_cols, n, l + 1, i,
                             found \/ differs(sorted_cols, l, i))

\* compute_sorting_auxs, `Compute Eq`
eq_value(ats) == IF \E l \in DOMAIN ats : ats[l] = 1 THEN 0 ELSE 1

\* a mutant of delta_term: the sign of the column is left out
delta_term_unsigned(sorted_cols, signs, ats, l, i) ==
    mul_assign(sub_assign(unwrap(get(sorted_cols[l], i)), unwrap(get(sorted_cols[l], i - 1))),
               ats[l])

\* compute_sorting_auxs, `Compute Delta`: the term of column l
delta_term(sorted_cols, signs, ats, l, i) ==
    LET term == mul_assign(sub_assign(unwrap(get(sorted_cols[l], i)),
                                      unwrap(get(sorted_cols[l], i - 1))),
                           ats[l])
    IN  IF ~signs[l] THEN negate(term) ELSE term

RECURSIVE delta_sum(_, _, _, _, _)
delta_sum(sorted_cols, signs, ats, l, i) ==
    IF l = 0 THEN 0
    ELSE add_assign(delta_sum(sorted_cols, signs, ats, l - 1, i),
                    delta_term(sorted_cols, signs, ats, l, i))

delta_value(sorted_cols, signs, ats, i) ==
    IF eq_value(ats) = 0 THEN delta_sum(sorted_cols, signs, ats, Len(ats), i) ELSE 0

\* byte k, from 0, of the little-endian canonical representation of x
le_byte(x, k) == (x \div Pow(ByteBase, k)) % ByteBase

\* ConstraintSet::compute_sorting_auxs
compute_sorting_auxs(cs, ats, eq, delta, delta_bytes, signs, from, sorted) ==
    LET r == compute_columns(cs, from \o sorted)
        s == spilling_or_insert(r.cs, from[1].module)
        spilling == s.res
        length == len(s.cs.modules[from[1]])
        sorted_cols == [l \in DOMAIN sorted |-> s.cs.modules[sorted[l]]]
        at_at(i) == at_row(sorted_cols, Len(ats), 1, i, FALSE)
        at_values(l) == Zeros(spilling) \o [k \in 1..length |-> at_at(k - 1)[l]]
        eq_values == [k \in 1..spilling |-> 1] \o [k \in 1..length |-> eq_value(at_at(k - 1))]
        delta_at(i) == delta_value(sorted_cols, signs, at_at(i), i)
        delta_values == Zeros(spilling) \o [k \in 1..length |-> delta_at(k - 1)]
        delta_bytes_values(b) ==
            Zeros(spilling) \o [k \in 1..length |-> le_byte(delta_at(k - 1), b - 1)]
        idx(seq, h) == CHOOSE k \in DOMAIN seq : seq[k] = h
    IN  IF r.res # "ok" THEN r
        ELSE Result([s.cs EXCEPT !.modules =
                        [h \in DOMAIN @ |->
                            CASE h \in Range(ats) ->
                                    set_raw_value(@[h], at_values(idx(ats, h)), spilling)
                              [] h = eq -> set_raw_value(@[h], eq_values, spilling)
                              [] h = delta -> set_raw_value(@[h], delta_values, spilling)
                              [] h \in Range(delta_bytes) ->
                                    set_raw_value(@[h], delta_bytes_values(idx(delta_bytes, h)), spilling)
                              [] OTHER -> @[h]]],
                    "ok")

\* a mutant of compute_column: a column no computation fills is left empty
\* without an error
compute_column_silent(cs, target) ==
    LET target_col == cs.modules[target]
        deps == ComputationOf(cs.computations, target)
    IN  IF is_computed(target_col) THEN Result(cs, "ok")
        ELSE IF target_col.kind = "Atomic" THEN Result(cs, "EmptyColumn")
        ELSE IF deps = {} THEN Result(cs, "ok")
        ELSE compute(cs, CHOOSE k \in deps : TRUE)

\* ConstraintSet::compute_column
compute_column(cs, target) ==
    LET target_col == cs.modules[target]
        deps == ComputationOf(cs.computations, target)
    IN  IF is_computed(target_col) THEN Result(cs, "ok")
        ELSE IF target_col.kind = "Atomic" THEN Result(cs, "EmptyColumn")
        ELSE IF deps = {} THEN Result(cs, "NoComputation")
        ELSE compute(cs, CHOOSE k \in deps : TRUE)

\* ConstraintSet::compute
compute(cs, i) ==
    LET comp == cs.computations[i]
    IN  CASE comp.kind = "Composite" ->
                IF ~is_computed(cs.modules[comp.target])
                THEN compute_composite(cs, comp.exp, comp.target)
                ELSE Result(cs, "ok")
          [] comp.kind = "Interleaved" ->
                IF ~is_computed(cs.modules[comp.target])
                THEN compute_interleaved(cs, comp.froms, comp.target)
                ELSE Result(cs, "ok")
          [] comp.kind = "Sorted" -> compute_sorted(cs, comp.froms, comp.tos)
          [] comp.kind = "CyclicFrom" ->
                compute_cyclic(cs, comp.froms, comp.target, comp.modulo)
          [] comp.kind = "SortingConstraints" ->
                compute_sorting_auxs(cs, comp.ats, comp.eq, comp.delta, comp.delta_bytes,
                                     comp.signs, comp.froms, comp.sorted)

\* a call of ConstraintSet::compute on computation i, of the kind given
Compute(i, kind) ==
    /\ computations[i].kind = kind
    /\ LET before == CS(modules, computations, _spilling)
           r == compute(before, i)
           comp == computations[i]
       IN  /\ modules' = r.cs.modules
           /\ _spilling' = r.cs._spilling
           /\ outcome' = [op |-> kind, i |-> i, res |-> r.res]
           /\ reads' = IF kind = "Composite" /\ r.res = "ok"
                          /\ ~is_computed(modules[comp.target])
                       THEN CompositeReads(r.cs, comp.exp, comp.target)
                       ELSE {}
    /\ UNCHANGED <<computations, driverVars, typingVars, aliasVars, frontVars>>

ComputeSorted == \E i \in DOMAIN computations : Compute(i, "Sorted")

ComputeSortingConstraints == \E i \in DOMAIN computations : Compute(i, "SortingConstraints")

ComputeInterleaved == \E i \in DOMAIN computations : Compute(i, "Interleaved")

ComputeComposite == \E i \in DOMAIN computations : Compute(i, "Composite")

(***************************************************************************)
(* A module with a permutation: the columns x_k filled from a trace, the   *)
(* columns s_k sorted from them, the auxiliary columns of the sorting      *)
(* constraints, and a composite column whose shift sets the spilling.      *)
(***************************************************************************)
\* the values of the rows of a trace
Values == {0, 1, 2}

\* the numbers of columns of a permutation
KeyCounts == {1, 2}

X(k) == Handle("m", <<"x", k>>)

S(k) == Handle("m", <<"s", k>>)

At(k) == Handle("m", <<"@", k>>)

EqH == Handle("m", <<"Eq", 0>>)

DeltaH == Handle("m", <<"Delta", 0>>)

DeltaByte(b) == Handle("m", <<"Delta_byte", b>>)

CompH == Handle("m", <<"comp", 0>>)

\* the columns of the module: the atomic ones hold the trace, padded with
\* the spilling of the module
SortColumns(n, data, spilling) ==
    LET atomic == {X(k) : k \in 1..n}
        phantom == {S(k) : k \in 1..n} \cup {At(k) : k \in 1..n} \cup {EqH, DeltaH, CompH}
                      \cup {DeltaByte(b) : b \in 1..NDeltaBytes}
    IN  [h \in atomic \cup phantom |->
            IF h \in atomic THEN Filled(data[h.name[2]], spilling) ELSE NewColumn("Phantom")]

\* the computations definitions.rs and the generator register for
\* (defpermutation (s_1 .. s_n) (x_1 .. x_n)) and a composite column
SortComputations(n, signs, shift) ==
    <<Composite(CompH, IF shift = 0 THEN ColumnExp(X(1)) ELSE ShiftExp(X(1), shift)),
      Sorted([k \in 1..n |-> X(k)], [k \in 1..n |-> S(k)]),
      SortingConstraints([k \in 1..n |-> At(k)], EqH, DeltaH,
                         [b \in 1..NDeltaBytes |-> DeltaByte(b)], signs,
                         [k \in 1..n |-> X(k)], [k \in 1..n |-> S(k)])>>

InitSort ==
    /\ \E n \in KeyCounts, L \in 0..MaxLen, shift \in (0 - MaxSpilling)..0 :
       \E signs \in [1..n -> BOOLEAN], data \in [1..n -> [1..L -> Values]] :
          /\ computations = SortComputations(n, signs, shift)
          /\ modules = SortColumns(n, data, SpillingOf(computations, "m"))
    /\ _spilling = <<>>
    /\ outcome = NoOutcome
    /\ reads = {}
    /\ DriverIdle
    /\ TypingIdle
    /\ AliasIdle
    /\ FrontIdle

NextSort ==
    \/ ComputeSorted
    \/ ComputeSortingConstraints
    \/ ComputeComposite

SpecSort == InitSort /\ [][NextSort]_vars

(***************************************************************************)
(* A module with an interleaved column: the columns x_k, filled from a     *)
(* trace or left empty, and the column interleaved from them.              *)
(***************************************************************************)
\* the numbers of columns of an interleaving
InterleaveCounts == {2, 3}

InterleavedH == Handle("m", <<"interleaved", 0>>)

\* the traces of a column: none, or up to MaxLen rows that are not zero
Traces == {<<"empty">>} \cup {<<"filled", data>> : data \in SeqsUpTo(Values \ {0}, MaxLen)}

InterleaveColumns(traces, spilling) ==
    LET atomic == {X(k) : k \in DOMAIN traces}
    IN  [h \in atomic \cup {InterleavedH, CompH} |->
            IF h \in atomic
            THEN IF traces[h.name[2]][1] = "empty"
                 THEN NewColumn("Atomic")
                 ELSE Filled(traces[h.name[2]][2], spilling)
            ELSE NewColumn("Phantom")]

\* the computations of a column (interleaved x_1 .. x_n) and a composite column
InterleaveComputations(n, shift) ==
    <<Composite(CompH, IF shift = 0 THEN ColumnExp(X(1)) ELSE ShiftExp(X(1), shift)),
      Interleaved(InterleavedH, [k \in 1..n |-> X(k)])>>

InitInterleave ==
    /\ \E n \in InterleaveCounts, shift \in (0 - MaxSpilling)..0 :
       \E traces \in [1..n -> Traces] :
          /\ computations = InterleaveComputations(n, shift)
          /\ modules = InterleaveColumns(traces, SpillingOf(computations, "m"))
    /\ _spilling = <<>>
    /\ outcome = NoOutcome
    /\ reads = {}
    /\ DriverIdle
    /\ TypingIdle
    /\ AliasIdle
    /\ FrontIdle

NextInterleave ==
    \/ ComputeInterleaved
    \/ ComputeComposite

SpecInterleave == InitInterleave /\ [][NextInterleave]_vars

(***************************************************************************)
(* A module with composite columns: the column x_1 filled from a trace, a  *)
(* composite column over it and a composite column over that one.          *)
(***************************************************************************)
CompositeH(k) == Handle("m", <<"c", k>>)

\* the constant shifts of the sources
ShiftOffsets == ((0 - MaxSpilling)..MaxSpilling) \ {0}

\* a column of hs, shifted or not
ColumnAtoms(hs) ==
    {ColumnExp(h) : h \in hs} \cup {ShiftExp(h, k) : h \in hs, k \in ShiftOffsets}

\* the expressions over the columns hs: a column, shifted or not, or a
\* builtin over two of them or one of them and a constant
Expressions(hs) ==
    ColumnAtoms(hs) \cup
    {Funcall(f, <<a, b>>) : f \in {"Add", "Sub", "Mul"},
                            a \in ColumnAtoms(hs), b \in ColumnAtoms(hs) \cup {Const(1)}}

CompositeColumns(data, spilling) ==
    [h \in {X(1), CompositeH(1), CompositeH(2)} |->
        IF h = X(1) THEN Filled(data, spilling) ELSE NewColumn("Phantom")]

InitComposite ==
    /\ \E data \in SeqsUpTo(Values, MaxLen) :
       \E e1 \in Expressions({X(1)}), e2 \in ColumnAtoms({CompositeH(1)}) :
          /\ computations = <<Composite(CompositeH(1), e1), Composite(CompositeH(2), e2)>>
          /\ modules = CompositeColumns(data, SpillingOf(computations, "m"))
    /\ _spilling = <<>>
    /\ outcome = NoOutcome
    /\ reads = {}
    /\ DriverIdle
    /\ TypingIdle
    /\ AliasIdle
    /\ FrontIdle

NextComposite == ComputeComposite

SpecComposite == InitComposite /\ [][NextComposite]_vars

(***************************************************************************)
(* Claims on Builtin::typing.                                              *)
(***************************************************************************)
\* the highest scale among the types ts
MaxScale(ts) == IterMax(ts).scale

AllBoolean(ts) ==
    \A i \in DOMAIN ts : ts[i].magma = "Boolean" /\ ts[i].scale \in {"Scalar", "Column"}

\* C9: typing is monotone: when the argument types are raised pointwise, by one
\* step of the lattice at one position, the type typing returns does not go
\* down. Stated for the argument vectors validate_types admits.
C9_TypingMonotone ==
    (/\ tprev # NoType
     /\ compatible_with(expected_t(tf), tlow)
     /\ compatible_with(expected_t(tf), targs))
        => TypeLeq(tprev, tret)

\* C10: on Boolean arguments, at the Scalar and Column scales, add, sub, neg
\* and inv return Integer and mul returns Boolean, at the highest scale of the
\* arguments.
C10_BooleanNonClosure ==
    (tret # NoType /\ AllBoolean(targs)) =>
        /\ tf \in {"Add", "Sub", "Neg", "Inv"} =>
              tret = [scale |-> MaxScale(targs), magma |-> "Integer"]
        /\ tf = "Mul" => tret = [scale |-> MaxScale(targs), magma |-> "Boolean"]

\* typing was called on two Boolean columns for an addition
C10_Witness ==
    /\ tf = "Add"
    /\ targs = <<Column("Boolean"), Column("Boolean")>>
    /\ tret = Column("Integer")

(***************************************************************************)
(* Claims on aliases.                                                      *)
(***************************************************************************)
RECURSIVE Holder(_, _, _)
\* the scope whose symbols hold name, looked for from scope s upwards
Holder(tabs, s, name) ==
    IF s = "none" THEN "none"
    ELSE IF tabs[s].symbols[name] # NoSymbol THEN s
    ELSE Holder(tabs, tabs[s].parent, name)

\* from scope s, name is found as an alias of to
IsAlias(tabs, s, name, to) ==
    /\ tabs[s].local_context[name] = NoNode
    /\ Holder(tabs, s, name) # "none"
    /\ tabs[Holder(tabs, s, name)].symbols[name] = Alias(to)

\* the sets of names the pairs of a defalias form close a cycle on, when
\* every pair of the form lies on it
CyclesOf(pairs) ==
    {C \in SUBSET Names :
        /\ C # {}
        /\ \A n \in C : \E i \in DOMAIN pairs : pairs[i][1] = n /\ pairs[i][2] \in C
        /\ \A i \in DOMAIN pairs : pairs[i][1] \in C /\ pairs[i][2] \in C}

\* the form handled last is a defalias whose pairs form a cycle over names
\* that had no definition before it
CyclicAliasesDeclared ==
    /\ last.op = "DefAliases"
    /\ \E C \in CyclesOf(last.pairs) : \A n \in C : last.before[n] = "UnknownSymbol"

\* C1, as stated: alias declarations that form a cycle over names with no
\* other definition fail the compile with CircularAlias
C1_CycleIsCircularAlias ==
    CyclicAliasesDeclared => (phase = "failed" /\ err = "CircularAlias")

\* C1, amended: alias declarations that form a cycle over names with no other
\* definition fail the compile at the first of them, with the unknown symbol
\* error of its target, and leave the tables without any of the aliases; a
\* failed compile stays failed, so no ConstraintSet is produced
C1_CycleIsUnknownSymbol ==
    /\ [](CyclicAliasesDeclared =>
            /\ phase = "failed"
            /\ err = "UnknownSymbol"
            /\ \A i \in DOMAIN last.pairs : tables[ctx].symbols[last.pairs[i][1]] = NoSymbol)
    /\ [][phase = "failed" => phase' = "failed"]_vars

C1_Witness ==
    /\ last.op = "DefAliases"
    /\ last.pairs = <<<<"a", "b">>, <<"b", "a">>>>
    /\ last.before["a"] = "UnknownSymbol"
    /\ last.before["b"] = "UnknownSymbol"
    /\ phase = "failed"
    /\ err = "UnknownSymbol"

TheComputation(kind) == computations[CHOOSE k \in DOMAIN computations : computations[k].kind = kind]

\* row i of the column of handle h
Row(h, i) == unwrap(get(modules[h], i))

\* the rows of the module, and the rows with its spilling rows
DataRows(h) == 0..(len(modules[h]) - 1)

AllRows(h) == (0 - modules[h].spilling)..(len(modules[h]) - 1)

\* row i of the columns hs
Key(hs, i) == [l \in DOMAIN hs |-> Row(hs[l], i)]

LexLess(a, b) == \E l \in DOMAIN a : a[l] < b[l] /\ \A j \in 1..(l - 1) : a[j] = b[j]

Bijections(D) == {f \in [D -> D] : \A x \in D, y \in D : f[x] = f[y] => x = y}

\* compute_sorted has filled the sorted columns
SortedRan == \E k \in DOMAIN computations :
    computations[k].kind = "Sorted" /\ is_computed(modules[computations[k].tos[1]])

\* compute_sorting_auxs has filled the auxiliary columns
AuxsRan == \E k \in DOMAIN computations :
    computations[k].kind = "SortingConstraints" /\ is_computed(modules[computations[k].eq])

\* C3: compute_sorted fills every to_k with the rows of from_k rearranged by
\* one permutation shared by all k, a bijection of [0, L) that orders the rows
\* lexicographically by (from[0], from[1], ...) and keeps rows of equal keys
\* in their order; the spilling rows in front are zero
C3_SortedIsStablePermutation ==
    SortedRan =>
        LET froms == TheComputation("Sorted").froms
            tos == TheComputation("Sorted").tos
            rows == DataRows(froms[1])
        IN  /\ \A k \in DOMAIN tos :
                  /\ len(modules[tos[k]]) = len(modules[froms[1]])
                  /\ modules[tos[k]].spilling = _spilling["m"]
                  /\ \A i \in AllRows(tos[k]) : i < 0 => Row(tos[k], i) = 0
            /\ \E pi \in Bijections(rows) :
                  /\ \A k \in DOMAIN tos : \A i \in rows : Row(tos[k], i) = Row(froms[k], pi[i])
                  /\ \A i \in rows, j \in rows :
                        i < j => \/ LexLess(Key(froms, pi[i]), Key(froms, pi[j]))
                                 \/ Key(froms, pi[i]) = Key(froms, pi[j]) /\ pi[i] < pi[j]

C3_Witness ==
    /\ outcome = [op |-> "Sorted", i |-> 2, res |-> "ok"]
    /\ Len(TheComputation("Sorted").froms) = 2
    /\ modules[X(1)].value = <<0, 1, 1>>
    /\ modules[X(2)].value = <<0, 2, 1>>
    /\ modules[S(1)].value = <<0, 1, 1>>
    /\ modules[S(2)].value = <<0, 1, 2>>

\* column l of the sorted columns differs at row i from its previous row
Differs(sorted, l, i) ==
    /\ get(modules[sorted[l]], i) # None
    /\ get(modules[sorted[l]], i - 1) # None
    /\ Row(sorted[l], i) # Row(sorted[l], i - 1)

\* C4: after compute_sorting_auxs, at every row of the auxiliary columns, the
\* spilling rows and row 0 included, Eq + the sum of the @_l is 1: the only
\* @_l that is 1 is the one of the first column that differs from its previous
\* row, and Eq is 1 exactly when all the @_l are 0
C4_EqPlusAtsIsOne ==
    AuxsRan =>
        LET c == TheComputation("SortingConstraints")
        IN  \A i \in AllRows(c.eq) :
                /\ Row(c.eq, i) \in {0, 1}
                /\ \A l \in DOMAIN c.ats :
                      Row(c.ats[l], i) =
                          IF Differs(c.sorted, l, i)
                             /\ \A j \in 1..(l - 1) : ~Differs(c.sorted, j, i)
                          THEN 1 ELSE 0
                /\ Row(c.eq, i) + Sum([l \in DOMAIN c.ats |-> Row(c.ats[l], i)], Len(c.ats)) = 1
                /\ Row(c.eq, i) = 1 <=> \A l \in DOMAIN c.ats : Row(c.ats[l], i) = 0

C4_Witness ==
    /\ outcome.op = "SortingConstraints"
    /\ outcome.res = "ok"
    /\ Len(TheComputation("SortingConstraints").sorted) = 2
    /\ modules[S(1)].value = <<0, 1, 1>>
    /\ modules[S(2)].value = <<0, 1, 2>>
    /\ modules[At(1)].value = <<0, 1, 0>>
    /\ modules[At(2)].value = <<0, 0, 1>>
    /\ modules[EqH].value = <<1, 0, 0>>

\* C5: after compute_sorting_auxs, at every row, Delta is 0 when Eq is 1 and
\* otherwise the sum over l of @_l * sign_l * (sorted[l][i] - sorted[l][i-1])
\* in the field, a false sign negating the term
C5_DeltaFormula ==
    AuxsRan =>
        LET c == TheComputation("SortingConstraints")
            term(l, i) == Row(c.ats[l], i) * (IF c.signs[l] THEN 1 ELSE 0 - 1)
                             * (Row(c.sorted[l], i) - Row(c.sorted[l], i - 1))
        IN  \A i \in AllRows(c.delta) :
                Row(c.delta, i) =
                    IF Row(c.eq, i) = 1 THEN 0
                    ELSE Sum([l \in DOMAIN c.ats |-> term(l, i)], Len(c.ats)) % FieldModulus

C5_Witness ==
    /\ outcome.op = "SortingConstraints"
    /\ outcome.res = "ok"
    /\ Len(TheComputation("SortingConstraints").sorted) = 2
    /\ TheComputation("SortingConstraints").signs = <<TRUE, FALSE>>
    /\ modules[S(1)].value = <<0, 1, 1>>
    /\ modules[S(2)].value = <<0, 1, 2>>
    /\ modules[DeltaH].value = <<0, 1, FieldModulus - 1>>

\* C6: for every choice of signs and at every row, the Delta that
\* compute_sorting_auxs computes from the columns of compute_sorted is below
\* ByteBase^NDeltaBytes, and the delta_bytes columns recompose to it
C6_DeltaFitsBytes ==
    AuxsRan =>
        LET c == TheComputation("SortingConstraints")
        IN  \A i \in AllRows(c.delta) :
                /\ Row(c.delta, i) < Pow(ByteBase, NDeltaBytes)
                /\ Row(c.delta, i) =
                      Sum([b \in DOMAIN c.delta_bytes |->
                              Row(c.delta_bytes[b], i) * Pow(ByteBase, b - 1)],
                          Len(c.delta_bytes))

(***************************************************************************)
(* Claims on the interleaved column.                                       *)
(***************************************************************************)
\* C7: compute_interleaved over k columns that all have length L fills the
\* target with k * L rows, row k * i + j being from[j][i]; over columns of
\* different lengths it fails with an error and leaves the target uncomputed
C7_InterleavedRows ==
    \A c \in Range(computations) :
        (c.kind = "Interleaved" /\ \A j \in DOMAIN c.froms : is_computed(modules[c.froms[j]])) =>
            LET k == Len(c.froms)
                L == len(modules[c.froms[1]])
                target == modules[c.target]
            IN  IF \A j \in DOMAIN c.froms : len(modules[c.froms[j]]) = L
                THEN outcome.op = "Interleaved" =>
                        /\ outcome.res = "ok"
                        /\ is_computed(target)
                        /\ len(target) = k * L
                        /\ \A i \in 0..(L - 1), j \in 0..(k - 1) :
                              Row(c.target, k * i + j) = Row(c.froms[j + 1], i)
                ELSE /\ ~is_computed(target)
                     /\ outcome.op = "Interleaved" => outcome.res = "IncoherentLengths"

C7_Witness ==
    /\ outcome = [op |-> "Interleaved", i |-> 2, res |-> "ok"]
    /\ Len(TheComputation("Interleaved").froms) = 2
    /\ modules[X(1)].value = <<0, 1, 2>>
    /\ modules[X(2)].value = <<0, 2, 1>>
    /\ modules[InterleavedH].value = <<1, 2, 2, 1>>

(***************************************************************************)
(* Claims on the composite columns.                                        *)
(***************************************************************************)
\* a read inside the rows of its column, the spilling rows included
InRange(rd) ==
    /\ 0 - modules[rd.handle].spilling <= rd.row
    /\ rd.row < len(modules[rd.handle])

\* compute_composite has just filled a column
CompositeRan == outcome.op = "Composite" /\ outcome.res = "ok" /\ reads # {}

\* C8, as stated: while a composite column of module m is computed, no read
\* of a column is made outside [-spilling(m), len(m))
C8_ReadsInRange == CompositeRan => \A rd \in reads : InRange(rd)

\* C8, amended: compute_composite evaluates the rows [-spilling(m), len(m)),
\* and a shift by k reads row i + k: every read is in
\* [-2 * spilling(m), len(m) + spilling(m)); a read outside
\* [-spilling(m), len(m)) finds no value and the row of the target is then
\* zero; the rows [0, len(m) - spilling(m)) read inside the range only
C8_ReadsWithinTwiceSpilling ==
    CompositeRan =>
        LET c == computations[outcome.i]
            sp == _spilling["m"]
            N == len(modules[c.target])
        IN  /\ \A rd \in reads : 0 - 2 * sp <= rd.row /\ rd.row < N + sp
            /\ \A i \in (0 - sp)..(N - 1) :
                  \/ \A rd \in ReadsAt(c.exp, i) : InRange(rd)
                  \/ Row(c.target, i) = 0
            /\ \A i \in 0..(N - sp - 1) : \A rd \in ReadsAt(c.exp, i) : InRange(rd)

C8_Witness ==
    /\ outcome = [op |-> "Composite", i |-> 1, res |-> "ok"]
    /\ computations[1].exp = ShiftExp(X(1), 0 - 1)
    /\ _spilling = [m \in {"m"} |-> 1]
    /\ [handle |-> X(1), row |-> 0 - 2] \in reads
    /\ modules[X(1)].value = <<0, 1, 2>>
    /\ modules[CompositeH(1)].value = <<0, 0, 1>>

(***************************************************************************)
(* The generator pass (compiler/generator.rs): reduce lowers an AstNode to *)
(* a typed Node, apply lowers the call of a builtin or of a user-defined   *)
(* function, apply_form the special forms.  The scopes (compiler/tables.rs)*)
(* and the nodes (compiler/node.rs) are not part of the sources at hand    *)
(* and follow the specification.                                           *)
(***************************************************************************)
\* Token::Value
TokenValue(x) == [class |-> "Value", value |-> x]

\* Token::Symbol
TokenSymbol(name) == [class |-> "Symbol", name |-> name]

\* Token::Range
TokenRange(is) == [class |-> "Range", is |-> is]

\* Token::List of a verb and its arguments
TokenList(verb, args) == [class |-> "List", verb |-> verb, args |-> args]

\* Node: an expression and its type
Node(e, t) == [e |-> e, t |-> t]

\* Expression::List
ListExp(nodes) == [class |-> "List", args |-> nodes]

\* Expression::Column of the generator: the handle and the kind
ColumnOf(h, kind) == [class |-> "Column", handle |-> h, kind |-> kind]

\* Expression::ArrayColumn
ArrayColumnExp(h, domain) == [class |-> "ArrayColumn", handle |-> h, domain |-> domain]

\* Node::one
one == Node(Const(1), Scalar("Boolean"))

\* Node::from_expr: the type of a call is the typing of its builtin
from_expr(e) == Node(e, typing(e.func, [i \in DOMAIN e.args |-> e.args[i].t]))

\* Node::with_type
with_type(n, t) == Node(n.e, t)

\* a scope: its flags, the module it declares in, its symbols and functions
Scope(name, module, pure, closed) ==
    [name |-> name, module |-> module, pure |-> pure, closed |-> closed,
     symbols |-> <<>>, funcs |-> <<>>, constraints |-> {}]

\* SymbolTable::derived: a scope below the scopes of c
derived(c, name, pure, closed) ==
    Append(c, Scope(name, c[Len(c)].module, pure, closed))

IsColumnNode(n) == n.e.class \in {"Column", "ArrayColumn"}

RECURSIVE resolve_from(_, _, _, _, _, _)
\* SymbolTable::resolve_symbol of the scopes: the alias chain, the scope,
\* then its parents; a column is not resolved in or through a pure scope,
\* nor above a closed scope
resolve_from(c, k, name, ax, pure, closed) ==
    IF name \in ax
    THEN Err("CircularAlias")
    ELSE IF name \in DOMAIN c[k].symbols
         THEN LET sym == c[k].symbols[name]
              IN  IF sym.class = "Alias"
                  THEN resolve_from(c, k, sym.to, ax \cup {name}, pure, closed)
                  ELSE IF IsColumnNode(sym.node) /\ (pure \/ c[k].pure)
                       THEN Err("PureContextViolation")
                       ELSE IF IsColumnNode(sym.node) /\ closed
                            THEN Err("UnknownSymbol")
                            ELSE Ok(sym.node)
         ELSE IF k = 1
              THEN Err("UnknownSymbol")
              ELSE resolve_from(c, k - 1, name, {}, pure \/ c[k].pure, closed \/ c[k].closed)

\* resolve_symbol from the innermost scope of c
resolve_in(c, name) == resolve_from(c, Len(c), name, {}, FALSE, FALSE)

\* insert_symbol into the innermost scope of c
bind(c, name, node) == [c EXCEPT ![Len(c)].symbols = Put(@, name, Final(node))]

RECURSIVE resolve_function_from(_, _, _)
\* SymbolTable::resolve_function: the functions of the scope, then of its
\* parents, through closed scopes as well
resolve_function_from(c, k, verb) ==
    IF verb \in DOMAIN c[k].funcs
    THEN Ok(c[k].funcs[verb])
    ELSE IF k = 1 THEN Err("UnknownFunction") ELSE resolve_function_from(c, k - 1, verb)

\* Builtin::raw_call
raw_call(b, args) == Funcall(b, args)

\* FuncVerifier for Builtin, validate_types: the types of the arguments
\* against the alternatives of the builtin
validate_types(b, args) ==
    IF compatible_with(expected_t(b), [i \in DOMAIN args |-> args[i].t])
    THEN Ok(NoNode)
    ELSE Err("TypeError")

\* FuncVerifier for Builtin, validate_args: the arity alone
validate_args(b, args) == IF arity(b, Len(args)) THEN Ok(NoNode) ELSE Err("ArityError")

\* Builtin::call
call(b, args) ==
    IF ~validate_args(b, args).ok
    THEN validate_args(b, args)
    ELSE Ok(from_expr(raw_call(b, args)))

\* the special forms
Forms == {"For", "Let"}

\* a function: a builtin, a special form or a user-defined function
BuiltinFunction(b) == [class |-> "Builtin", builtin |-> b]

SpecialForm(sf) == [class |-> "SpecialForm", form |-> sf]

\* Defined
UserDefined(pure, args, body) ==
    [class |-> "UserDefined", pure |-> pure, args |-> args, body |-> body]

\* resolve_function from the innermost scope of c; the builtins and the
\* special forms are functions of the root scope
resolve_function(c, verb) ==
    CASE verb \in Builtin -> Ok(BuiltinFunction(verb))
      [] verb \in Forms -> Ok(SpecialForm(verb))
      [] OTHER -> resolve_function_from(c, Len(c), verb)

\* the node of a constant: boolean when it is 0 or 1, an integer otherwise
from_const(x) ==
    Node(Const(x), IF x >= 0 /\ x <= 1 THEN Scalar("Boolean") ELSE Scalar("Integer"))

\* the types of nodes
TypesOf(args) == [i \in DOMAIN args |-> args[i].t]

RECURSIVE begin_fold(_, _)
\* a mutant of begin_fold: a list argument is pushed as it is
begin_fold_push(ax, args) ==
    IF args = <<>> THEN ax ELSE begin_fold(Append(ax, Head(args)), Tail(args))

\* apply, Builtin::Begin: the fold that appends the elements of an argument
\* that is a list, and pushes any other argument
begin_fold(ax, args) ==
    IF args = <<>>
    THEN ax
    ELSE begin_fold(IF Head(args).e.class = "List"
                    THEN ax \o Head(args).e.args
                    ELSE Append(ax, Head(args)),
                    Tail(args))

\* apply, Builtin::Begin
apply_Begin(args) ==
    Ok(Node(ListExp(begin_fold(<<>>, args)), FoldMax(INFIMUM, TypesOf(args))))

\* apply, Builtin::Not
apply_Not(args) ==
    LET r == call("Sub", <<one, args[1]>>)
    IN  IF r.ok THEN Ok(with_type(r.node, same_scale(args[1].t, "Boolean"))) ELSE r

\* apply, Builtin::Eq
apply_Eq(args) ==
    LET x == args[1]
        y == args[2]
        d == call("Sub", <<x, y>>)
    IN  IF ~d.ok
        THEN d
        ELSE IF is_bool(x.t) /\ is_bool(y.t)
             THEN Ok(Node(raw_call("Mul", <<d.node, d.node>>), same_scale(x.t, "Boolean")))
             ELSE d

\* format!("{}_{}", name, i) for the arrays of the sources
element_name(name, i) ==
    CASE name = "A" -> <<"A_0", "A_1", "A_2">>[i + 1]
      [] name = "T" -> <<"T_0", "T_1", "T_2">>[i + 1]

\* apply, Builtin::Nth: the column of an index of an array
apply_Nth(c, args) ==
    IF args[1].e.class # "ArrayColumn"
    THEN Err("unreachable")
    ELSE IF args[2].e.class # "Const" \/ args[2].e.value < 0
         THEN Err("NotAnIndex")
         ELSE LET i == args[2].e.value
                  array == resolve_in(c, args[1].e.handle.name)
              IN  IF ~array.ok
                  THEN array
                  ELSE IF i \in array.node.e.domain
                       THEN Ok(Node(ColumnOf(Handle(array.node.e.handle.module,
                                                    element_name(array.node.e.handle.name, i)),
                                             "Atomic"),
                                    Column(array.node.t.magma)))
                       ELSE Err("OutOfDomain")

\* apply, Builtin::Len
apply_Len(args) ==
    IF args[1].e.class = "ArrayColumn"
    THEN Ok(from_const(Cardinality(args[1].e.domain)))
    ELSE Err("NotAnArray")

\* apply, FunctionClass::Builtin: the arity is validated, then the builtin lowered
apply_Builtin(b, c, args) ==
    IF ~validate_args(b, args).ok
    THEN validate_args(b, args)
    ELSE CASE b = "Begin" -> apply_Begin(args)
           [] b = "Nth" -> apply_Nth(c, args)
           [] b = "Not" -> apply_Not(args)
           [] b = "Eq" -> apply_Eq(args)
           [] b = "Len" -> apply_Len(args)
           [] OTHER -> call(b, args)

RECURSIVE reduce(_, _)
RECURSIVE reduce_args(_, _, _)
\* apply: the arguments are reduced in turn; the first error ends the call
reduce_args(args, c, ax) ==
    IF args = <<>>
    THEN [ok |-> TRUE, nodes |-> ax]
    ELSE LET r == reduce(Head(args), c)
         IN  IF ~r.ok
             THEN r
             ELSE reduce_args(Tail(args), c, IF r.node = NoNode THEN ax ELSE Append(ax, r.node))

RECURSIVE for_loop(_, _, _, _, _)
\* apply_form, Form::For: the body reduced for every index of the range, each
\* in a scope of its own that binds the index
for_loop(c, i_name, is, body, l) ==
    IF is = <<>>
    THEN Ok(Node(ListExp(l), FoldMax(INFIMUM, TypesOf(l))))
    ELSE LET for_ctx == bind(derived(c, "for", FALSE, FALSE), i_name, from_const(Head(is)))
             r == reduce(body, for_ctx)
         IN  IF ~r.ok THEN r ELSE for_loop(c, i_name, Tail(is), body, Append(l, r.node))

RECURSIVE let_pairs(_, _)
\* apply_form, Form::Let: every pair is reduced in the scope of the let and
\* bound there
let_pairs(sub_ctx, pairs) ==
    IF pairs = <<>>
    THEN [ok |-> TRUE, ctx |-> sub_ctx]
    ELSE LET value == reduce(Head(pairs)[2], sub_ctx)
         IN  IF ~value.ok
             THEN value
             ELSE let_pairs(bind(sub_ctx, Head(pairs)[1], value.node), Tail(pairs))

\* apply_form
apply_form(f, args, c) ==
    CASE f = "For" -> for_loop(c, args[1].name, args[2].is, args[3], <<>>)
      [] f = "Let" ->
            LET sub_ctx == let_pairs(derived(c, "let", FALSE, FALSE), args[1])
            IN  IF ~sub_ctx.ok THEN sub_ctx ELSE reduce(args[2], sub_ctx.ctx)

RECURSIVE bind_args(_, _, _)
\* apply, UserDefined: the formals bound to the reduced arguments
bind_args(f_ctx, f_args, args) ==
    IF f_args = <<>>
    THEN f_ctx
    ELSE bind_args(bind(f_ctx, Head(f_args), Head(args)), Tail(f_args), Tail(args))

\* a mutant of apply_UserDefined: the scope of the call is never pure
apply_UserDefined_impure(f, c, args) ==
    IF Len(args) # Len(f.args)
    THEN Err("ArityError")
    ELSE reduce(f.body, bind_args(derived(c, "fn", FALSE, FALSE), f.args, args))

\* apply, FunctionClass::UserDefined: the body reduced in a scope of the
\* call, pure when the function is
apply_UserDefined(f, c, args) ==
    IF Len(args) # Len(f.args)
    THEN Err("ArityError")
    ELSE reduce(f.body, bind_args(derived(c, "fn", f.pure, FALSE), f.args, args))

\* apply
apply(f, args, c) ==
    IF f.class = "SpecialForm"
    THEN apply_form(f.form, args, c)
    ELSE LET traversed == reduce_args(args, c, <<>>)
         IN  IF ~traversed.ok
             THEN traversed
             ELSE IF f.class = "Builtin"
                  THEN apply_Builtin(f.builtin, c, traversed.nodes)
                  ELSE apply_UserDefined(f, c, traversed.nodes)

\* reduce: the node of an expression in the scopes c
reduce(e, c) ==
    CASE e.class = "Value" -> Ok(from_const(e.value))
      [] e.class = "Symbol" -> resolve_in(c, e.name)
      [] e.class = "List" ->
            LET func == resolve_function(c, e.verb)
            IN  IF ~func.ok THEN func ELSE apply(func.node, e.args, c)
      [] OTHER -> Ok(NoNode)

(***************************************************************************)
(* SpecLower: reduce applied to one form in a root scope that declares     *)
(* the columns B (boolean) and N (integer) and the array A.                *)
(***************************************************************************)
MaxBegin == 3

\* a column of the prelude, as the definitions pass declares it
AtomicColumn(name, magma) ==
    Node(ColumnOf(Handle("prelude", name), "Atomic"), Column(magma))

LowerScopes ==
    <<[Scope("prelude", "prelude", FALSE, FALSE) EXCEPT
        !.symbols = ("B" :> Final(AtomicColumn("B", "Boolean")))
                    @@ ("N" :> Final(AtomicColumn("N", "Integer")))
                    @@ ("A" :> Final(Node(ArrayColumnExp(Handle("prelude", "A"), {0, 1}),
                                          ArrayColumn("Integer"))))]>>

\* the arguments of the calls of builtins
LowerAtoms ==
    {TokenValue(1), TokenValue(2), TokenSymbol("B"), TokenSymbol("N"), TokenSymbol("A")}

\* the calls of the builtins on atoms
BuiltinForms ==
    {TokenList(b, args) : b \in Builtin, args \in SeqsUpTo(LowerAtoms, MaxArgs) \ {<<>>}}

BeginAtoms == {TokenSymbol("B"), TokenValue(2)}

ForOver(body) == TokenList("For", <<TokenSymbol("i"), TokenRange(<<0, 1>>), body>>)

\* a loop over an atom, and a begin of two atoms
FlatForms ==
    {ForOver(a) : a \in BeginAtoms}
        \cup {TokenList("Begin", <<a, b>>) : a \in BeginAtoms, b \in BeginAtoms}

\* a loop over a loop or over a begin
NestedForms == {ForOver(x) : x \in FlatForms}

\* the begin forms over atoms, loops, begins and nested loops
BeginForms ==
    {TokenList("Begin", args) :
        args \in SeqsUpTo(BeginAtoms \cup FlatForms \cup NestedForms, MaxBegin) \ {<<>>}}

InitLower ==
    /\ form \in BuiltinForms \cup BeginForms
    /\ result = NoNode
    /\ TypingIdle
    /\ AliasIdle
    /\ ComputeIdle
    /\ CompileIdle

\* reduce of the form
Reduce ==
    /\ result = NoNode
    /\ result' = reduce(form, LowerScopes)
    /\ UNCHANGED <<form, compileVars, typingVars, aliasVars, computeVars>>

NextLower == Reduce

SpecLower == InitLower /\ [][NextLower]_vars

(***************************************************************************)
(* Claims on the lowering of the builtins.                                 *)
(***************************************************************************)
\* the reduced arguments of the form handed to reduce
ReducedArgs == reduce_args(form.args, LowerScopes, <<>>).nodes

\* reduce has returned a node for the call of builtin b
Lowered(b) ==
    /\ form \in BuiltinForms
    /\ form.verb = b
    /\ result # NoNode
    /\ result.ok

\* C11: (eq x y) is lowered to Mul(Sub(x, y), Sub(x, y)) when both arguments
\* are boolean and to Sub(x, y) otherwise, (not x) to Sub(1, x); the boolean
\* lowerings are typed Boolean at the maximum scale of the arguments
C11_BooleanLoweringAtMaxScale ==
    /\ Lowered("Not") =>
        /\ result.node.e = Funcall("Sub", <<one, ReducedArgs[1]>>)
        /\ result.node.t = [scale |-> MaxScale(TypesOf(ReducedArgs)), magma |-> "Boolean"]
    /\ Lowered("Eq") =>
        LET x == ReducedArgs[1]
            y == ReducedArgs[2]
            d == Node(Funcall("Sub", <<x, y>>), typing("Sub", <<x.t, y.t>>))
        IN  IF is_bool(x.t) /\ is_bool(y.t)
            THEN /\ result.node.e = Funcall("Mul", <<d, d>>)
                 /\ result.node.t =
                        [scale |-> MaxScale(TypesOf(ReducedArgs)), magma |-> "Boolean"]
            ELSE result.node.e = d.e

\* C20: a builtin applied to arguments whose types do not match its
\* positional alternative sets fails with a TypeError, and no Funcall node is
\* produced
C20_TypeErrorOnMismatch ==
    \A b \in Builtin :
        (/\ form \in BuiltinForms
         /\ form.verb = b
         /\ result # NoNode
         /\ arity(b, Len(ReducedArgs))
         /\ ~compatible_with(expected_t(b), TypesOf(ReducedArgs)))
            => result = Err("TypeError")

RECURSIVE SpliceBegins(_)
\* the arguments with every argument that is a begin replaced by its own
\* arguments
SpliceBegins(args) ==
    IF args = <<>>
    THEN <<>>
    ELSE (IF Head(args).class = "List" /\ Head(args).verb = "Begin"
          THEN Head(args).args
          ELSE <<Head(args)>>) \o SpliceBegins(Tail(args))

IsListNode(n) == n.e.class = "List"

\* a list that holds a list
HoldsList(n) == IsListNode(n) /\ \E i \in DOMAIN n.e.args : IsListNode(n.e.args[i])

\* reduce has returned the list of a begin form
BeginReduced ==
    /\ form \in BeginForms
    /\ result # NoNode
    /\ result.ok

\* C12 as stated: a begin whose arguments hold begins reduces as the begin
\* of the spliced arguments, and the list of any reduced begin, loops and
\* nested loops among its arguments included, holds no list
C12_BeginHoldsNoList ==
    BeginReduced =>
        /\ result = reduce(TokenList("Begin", SpliceBegins(form.args)), LowerScopes)
        /\ ~HoldsList(result.node)

\* C12, amended: begin flattens its list arguments by one level: a begin
\* whose arguments hold begins reduces as the begin of the spliced arguments,
\* and its list holds a list exactly when an argument reduces to a list that
\* holds one (a loop over a loop or over a begin)
C12_BeginFlattensOneLevel ==
    BeginReduced =>
        /\ result = reduce(TokenList("Begin", SpliceBegins(form.args)), LowerScopes)
        /\ IsListNode(result.node)
        /\ HoldsList(result.node) <=> \E i \in DOMAIN ReducedArgs : HoldsList(ReducedArgs[i])

\* (begin B (begin 2 B) 2) was reduced to the list of B, 2, B, 2
C12_Witness ==
    /\ BeginReduced
    /\ form.args = <<TokenSymbol("B"),
                     TokenList("Begin", <<TokenValue(2), TokenSymbol("B")>>),
                     TokenValue(2)>>
    /\ result.node.e.args = <<AtomicColumn("B", "Boolean"), from_const(2),
                              AtomicColumn("B", "Boolean"), from_const(2)>>

(***************************************************************************)
(* make (compiler/mod.rs): the definitions pass (compiler/definitions.rs)  *)
(* over the forms of the sources, the generator pass over the same forms,  *)
(* then the finalization that fills the ColumnSet, registers the           *)
(* computations of the composite and interleaved columns and sets the ids  *)
(* of the handles.                                                         *)
(***************************************************************************)
\* the forms of a source; NextSource stands for the start of the next source
NextSource == [class |-> "NextSource"]

DefModuleT(name) == [class |-> "DefModule", name |-> name]

DefColumnT(name, t, kind) == [class |-> "DefColumn", name |-> name, t |-> t, kind |-> kind]

DefArrayColumnT(name, domain, t) ==
    [class |-> "DefArrayColumn", name |-> name, domain |-> domain, t |-> t]

DefConstsT(name, value) == [class |-> "DefConsts", name |-> name, value |-> value]

DefPermutationT(from, to, signs) ==
    [class |-> "DefPermutation", from |-> from, to |-> to, signs |-> signs]

DefAliasT(from, to) == [class |-> "DefAlias", from |-> from, to |-> to]

DefunT(name, args, body) ==
    [class |-> "Defun", name |-> name, args |-> args, body |-> body]

DefpurefunT(name, args, body) ==
    [class |-> "Defpurefun", name |-> name, args |-> args, body |-> body]

DefConstraintT(name, body) == [class |-> "DefConstraint", name |-> name, body |-> body]

\* the kinds of a column
KindAtomic == [class |-> "Atomic"]

KindPhantom == [class |-> "Phantom"]

KindComposite(e) == [class |-> "Composite", exp |-> e]

KindInterleaved(froms) == [class |-> "Interleaved", froms |-> froms]

MAIN_MODULE == "prelude"

\* Scope::new: the root scope
RootScopes == (MAIN_MODULE :> Scope(MAIN_MODULE, MAIN_MODULE, FALSE, FALSE))

\* the scopes a resolution from scope s goes through: the root, then s
Chain(scs, s) == IF s = MAIN_MODULE THEN <<scs[s]>> ELSE <<scs[MAIN_MODULE], scs[s]>>

\* the result of a step of a pass: the tables after it, and its result
Step(scs, s, reg, res) == [scopes |-> scs, scope |-> s, registered |-> reg, res |-> res]

\* SymbolTable::derived of the root for a module: the scope of that name,
\* made when it is not there yet
derived_module(scs, name, closed) ==
    IF name \in DOMAIN scs THEN scs ELSE Put(scs, name, Scope(name, name, FALSE, closed))

\* SymbolTable::insert_symbol, insert_alias and insert_constant
insert_into(scs, s, name, sym) ==
    IF name \in DOMAIN scs[s].symbols
    THEN [scopes |-> scs, res |-> Err("DuplicateDefinition")]
    ELSE [scopes |-> [scs EXCEPT ![s].symbols = Put(@, name, sym)], res |-> Ok(NoNode)]

\* SymbolTable::insert_function
insert_function(scs, s, name, f) ==
    IF name \in DOMAIN scs[s].funcs
    THEN [scopes |-> scs, res |-> Err("DuplicateDefinition")]
    ELSE [scopes |-> [scs EXCEPT ![s].funcs = Put(@, name, f)], res |-> Ok(NoNode)]

\* ComputationTable::insert_many: a computation is registered for targets
\* that have none
insert_many(reg, targets, comp) ==
    IF \E i \in DOMAIN reg : Targets(reg[i]) \cap Range(targets) # {}
    THEN [registered |-> reg, res |-> Err("DuplicateComputation")]
    ELSE [registered |-> Append(reg, comp), res |-> Ok(NoNode)]

\* the phantom column a permutation declares
PhantomColumn(h) == Node(ColumnOf(h, KindPhantom), Column("Integer"))

RECURSIVE permutation_columns(_, _, _, _, _, _)
\* definitions.rs, Token::DefPermutation, the loop over (to, from): the
\* source is resolved to its handle and the target declared; a target that
\* is declared already is left as it is
permutation_columns(scs, s, tos, froms, _froms, _tos) ==
    IF tos = <<>> \/ froms = <<>>
    THEN [scopes |-> scs, froms |-> _froms, tos |-> _tos, res |-> Ok(NoNode)]
    ELSE LET to_handle == Handle(scs[s].module, Head(tos))
             from == resolve_in(Chain(scs, s), Head(froms))
         IN  IF ~from.ok
             THEN [scopes |-> scs, froms |-> _froms, tos |-> _tos, res |-> from]
             ELSE IF from.node.e.class # "Column"
                  THEN [scopes |-> scs, froms |-> _froms, tos |-> _tos,
                        res |-> Err("unreachable")]
                  ELSE permutation_columns(
                           insert_into(scs, s, Head(tos), Final(PhantomColumn(to_handle))).scopes,
                           s, Tail(tos), Tail(froms),
                           Append(_froms, from.node.e.handle), Append(_tos, to_handle))

\* Computation::Sorted as the definitions pass registers it, with its signs
SortedBy(froms, tos, signs) == [kind |-> "Sorted", froms |-> froms, tos |-> tos, signs |-> signs]

\* a mutant of definitions_DefPermutation: the cardinalities are not compared
definitions_DefPermutation_unchecked(e, scs, s, reg) ==
    LET cols == permutation_columns(scs, s, e.to, e.from, <<>>, <<>>)
        ins == insert_many(reg, cols.tos, SortedBy(cols.froms, cols.tos, e.signs))
    IN  IF ~cols.res.ok
        THEN Step(scs, s, reg, cols.res)
        ELSE Step(cols.scopes, s, ins.registered, ins.res)

\* definitions.rs, reduce, Token::DefPermutation
definitions_DefPermutation(e, scs, s, reg) ==
    IF Len(e.to) # Len(e.from)
    THEN Step(scs, s, reg, Err("CardinalityMismatch"))
    ELSE LET cols == permutation_columns(scs, s, e.to, e.from, <<>>, <<>>)
             ins == insert_many(reg, cols.tos, SortedBy(cols.froms, cols.tos, e.signs))
         IN  IF ~cols.res.ok
             THEN Step(scs, s, reg, cols.res)
             ELSE Step(cols.scopes, s, ins.registered, ins.res)

\* definitions.rs, reduce, Token::DefColumn: a composite or interleaved
\* column is declared phantom
definitions_DefColumn(e, scs, s, reg) ==
    LET symbol == Node(ColumnOf(Handle(scs[s].module, e.name),
                                IF e.kind.class = "Atomic" THEN KindAtomic ELSE KindPhantom),
                       e.t)
        r == insert_into(scs, s, e.name, Final(symbol))
    IN  Step(r.scopes, s, reg, r.res)

\* definitions.rs, reduce, Token::DefModule
definitions_DefModule(e, scs, s, reg) ==
    Step(derived_module(scs, e.name, TRUE), e.name, reg, Ok(NoNode))

\* definitions.rs, reduce, Token::Defun and Token::Defpurefun
definitions_Defun(e, scs, s, reg, pure) ==
    LET r == insert_function(scs, s, e.name, UserDefined(pure, e.args, e.body))
    IN  Step(r.scopes, s, reg, r.res)

\* definitions.rs, reduce, Token::DefAlias
definitions_DefAlias(e, scs, s, reg) ==
    LET to == resolve_in(Chain(scs, s), e.to)
        r == insert_into(scs, s, e.from, Alias(e.to))
    IN  IF ~to.ok THEN Step(scs, s, reg, to) ELSE Step(r.scopes, s, reg, r.res)

\* definitions.rs, reduce: one form of a source
definitions_reduce(e, scs, s, reg) ==
    CASE e.class = "NextSource" -> Step(scs, MAIN_MODULE, reg, Ok(NoNode))
      [] e.class = "DefModule" -> definitions_DefModule(e, scs, s, reg)
      [] e.class = "DefColumn" -> definitions_DefColumn(e, scs, s, reg)
      [] e.class = "DefArrayColumn" ->
            LET r == insert_into(scs, s, e.name,
                         Final(Node(ArrayColumnExp(Handle(scs[s].module, e.name), e.domain),
                                    e.t)))
            IN  Step(r.scopes, s, reg, r.res)
      [] e.class = "DefConsts" ->
            LET r == insert_into(scs, s, e.name, Final(from_const(e.value)))
            IN  Step(r.scopes, s, reg, r.res)
      [] e.class = "DefPermutation" -> definitions_DefPermutation(e, scs, s, reg)
      [] e.class = "Defun" -> definitions_Defun(e, scs, s, reg, FALSE)
      [] e.class = "Defpurefun" -> definitions_Defun(e, scs, s, reg, TRUE)
      [] e.class = "DefAlias" -> definitions_DefAlias(e, scs, s, reg)
      [] e.class = "DefConstraint" ->
            IF e.name \in scs[s].constraints
            THEN Step(scs, s, reg, Err("DuplicateDefinition"))
            ELSE Step([scs EXCEPT ![s].constraints = @ \cup {e.name}], s, reg, Ok(NoNode))
      [] OTHER -> Step(scs, s, reg, Ok(NoNode))

\* Constraint::Vanishes
Vanishes(h, expr) == [class |-> "Vanishes", handle |-> h, expr |-> expr]

\* Constraint::Permutation
Permutation(h, from, to) == [class |-> "Permutation", handle |-> h, from |-> from, to |-> to]

\* the result of a step of the generator pass: the tables after it, the
\* constraint it built, if any, and its result
Generated(scs, s, c, res) == [scopes |-> scs, scope |-> s, constraint |-> c, res |-> res]

\* SymbolTable::edit_symbol on the kind of a column
edit_kind(scs, s, name, kind) ==
    IF name \in DOMAIN scs[s].symbols /\ scs[s].symbols[name].class = "Final"
    THEN [scopes |->
            IF scs[s].symbols[name].node.e.class = "Column"
            THEN [scs EXCEPT ![s].symbols[name].node.e.kind = kind]
            ELSE scs,
          res |-> Ok(NoNode)]
    ELSE [scopes |-> scs, res |-> Err("UnknownSymbol")]

RECURSIVE from_handles(_, _, _)
\* generator.rs, reduce, Kind::Interleaved: the handles of the sources, each
\* of which has to reduce to a column
from_handles(froms, c, ax) ==
    IF froms = <<>>
    THEN [ok |-> TRUE, handles |-> ax]
    ELSE LET r == reduce(Head(froms), c)
         IN  IF ~r.ok
             THEN r
             ELSE IF r.node.e.class # "Column"
                  THEN Err("ExpectedColumn")
                  ELSE from_handles(Tail(froms), c, Append(ax, r.node.e.handle))

\* a mutant of generator_DefColumn: the declared kind is not set
generator_DefColumn_unpatched(e, scs, s) == Generated(scs, s, NoNode, Ok(NoNode))

\* generator.rs, reduce, Token::DefColumn: the kind the definitions pass left
\* phantom is set to the reduced expression or to the handles of the sources
generator_DefColumn(e, scs, s) ==
    CASE e.kind.class = "Composite" ->
            LET n == reduce(e.kind.exp, Chain(scs, s))
                r == edit_kind(scs, s, e.name, KindComposite(n.node))
            IN  IF ~n.ok
                THEN Generated(scs, s, NoNode, n)
                ELSE Generated(r.scopes, s, NoNode, r.res)
      [] e.kind.class = "Interleaved" ->
            LET hs == from_handles(e.kind.froms, Chain(scs, s), <<>>)
                r == edit_kind(scs, s, e.name, KindInterleaved(hs.handles))
            IN  IF ~hs.ok
                THEN Generated(scs, s, NoNode, hs)
                ELSE Generated(r.scopes, s, NoNode, r.res)
      [] OTHER -> Generated(scs, s, NoNode, Ok(NoNode))

RECURSIVE resolve_all(_, _)
\* the first error of the resolution of the names, if any
resolve_all(c, names) ==
    IF names = <<>>
    THEN Ok(NoNode)
    ELSE IF ~resolve_in(c, Head(names)).ok
         THEN resolve_in(c, Head(names))
         ELSE resolve_all(c, Tail(names))

\* a mutant of generator_DefPermutation: the handles are those the names
\* resolve to
generator_DefPermutation_resolved(e, scs, s) ==
    LET c == Chain(scs, s)
    IN  IF ~resolve_all(c, e.from \o e.to).ok
        THEN Generated(scs, s, NoNode, resolve_all(c, e.from \o e.to))
        ELSE Generated(scs, s,
                 Permutation(Handle(scs[s].name, "permutation"),
                             [i \in DOMAIN e.from |-> resolve_in(c, e.from[i]).node.e.handle],
                             [i \in DOMAIN e.to |-> resolve_in(c, e.to[i]).node.e.handle]),
                 Ok(NoNode))

\* generator.rs, reduce_toplevel, Token::DefPermutation: both sides are
\* resolved, and the handles are made of the names as they are written
generator_DefPermutation(e, scs, s) ==
    LET c == Chain(scs, s)
    IN  IF ~resolve_all(c, e.from \o e.to).ok
        THEN Generated(scs, s, NoNode, resolve_all(c, e.from \o e.to))
        ELSE Generated(scs, s,
                 Permutation(Handle(scs[s].name, "permutation"),
                             [i \in DOMAIN e.from |-> Handle(scs[s].name, e.from[i])],
                             [i \in DOMAIN e.to |-> Handle(scs[s].name, e.to[i])]),
                 Ok(NoNode))

\* a mutant of generator_DefModule: the pass stays in the scope it is in
generator_DefModule_stay(e, scs, s) == Generated(scs, s, NoNode, Ok(NoNode))

\* generator.rs, reduce_toplevel, Token::DefModule
generator_DefModule(e, scs, s) ==
    Generated(derived_module(scs, e.name, TRUE), e.name, NoNode, Ok(NoNode))

\* generator.rs, reduce_toplevel: one form of a source
reduce_toplevel(e, scs, s) ==
    CASE e.class = "NextSource" -> Generated(scs, MAIN_MODULE, NoNode, Ok(NoNode))
      [] e.class = "DefConstraint" ->
            LET expr == reduce(e.body, Chain(scs, s))
            IN  IF ~expr.ok
                THEN Generated(scs, s, NoNode, expr)
                ELSE Generated(scs, s, Vanishes(Handle(scs[s].name, e.name), expr.node),
                               Ok(NoNode))
      [] e.class = "DefColumn" -> generator_DefColumn(e, scs, s)
      [] e.class = "DefModule" -> generator_DefModule(e, scs, s)
      [] e.class = "DefPermutation" -> generator_DefPermutation(e, scs, s)
      [] OTHER -> Generated(scs, s, NoNode, Ok(NoNode))

RECURSIVE NodeHandles(_)
\* the handles of the columns of a node
NodeHandles(n) ==
    CASE n.e.class = "Column" -> {n.e.handle}
      [] n.e.class \in {"Funcall", "List"} -> UNION {NodeHandles(n.e.args[i]) : i \in DOMAIN n.e.args}
      [] OTHER -> {}

RECURSIVE node_size(_)
\* Node::size: the number of nodes of an expression
node_size(n) ==
    IF n.e.class \in {"Funcall", "List"}
    THEN 1 + Sum([i \in DOMAIN n.e.args |-> node_size(n.e.args[i])], Len(n.e.args))
    ELSE 1

\* Constraint::size
constraint_size(c) == IF c.class = "Vanishes" THEN node_size(c.expr) ELSE 1

RECURSIVE sorted_by_size(_)
\* make: the constraints sorted by decreasing size, those of one size in the
\* order the generator pass built them
sorted_by_size(cs) ==
    IF cs = <<>>
    THEN <<>>
    ELSE LET rest == sorted_by_size(Tail(cs))
             before == {i \in DOMAIN rest : constraint_size(rest[i]) > constraint_size(Head(cs))}
         IN  SubSeq(rest, 1, Cardinality(before)) \o <<Head(cs)>>
                 \o SubSeq(rest, Cardinality(before) + 1, Len(rest))

\* Constraint::add_id_to_handles: the handles of a constraint
ConstraintHandles(c) ==
    IF c.class = "Vanishes" THEN NodeHandles(c.expr) ELSE Range(c.from) \cup Range(c.to)

\* ComputationTable::update_ids: the handles of a computation
ComputationHandles(comp) ==
    CASE comp.kind = "Composite" -> {comp.target} \cup NodeHandles(comp.exp)
      [] comp.kind = "Interleaved" -> {comp.target} \cup Range(comp.froms)
      [] comp.kind = "Sorted" -> Range(comp.froms) \cup Range(comp.tos)

\* the column symbols of the scopes: scope and name
ColumnSymbols(scs) ==
    {<<s, name>> \in UNION {{s} \X DOMAIN scs[s].symbols : s \in DOMAIN scs} :
        /\ scs[s].symbols[name].class = "Final"
        /\ scs[s].symbols[name].node.e.class = "Column"}

RECURSIVE register_kinds(_, _, _)
\* make, the visit of the symbols: the computation of every composite and
\* interleaved column is registered, in the order of the visit
register_kinds(scs, visit, reg) ==
    IF visit = <<>>
    THEN [registered |-> reg, res |-> Ok(NoNode)]
    ELSE LET e == scs[Head(visit)[1]].symbols[Head(visit)[2]].node.e
             r == CASE e.kind.class = "Composite" ->
                          insert_many(reg, <<e.handle>>, Composite(e.handle, e.kind.exp))
                    [] e.kind.class = "Interleaved" ->
                          insert_many(reg, <<e.handle>>, Interleaved(e.handle, e.kind.froms))
                    [] OTHER -> [registered |-> reg, res |-> Ok(NoNode)]
         IN  IF ~r.res.ok THEN r ELSE register_kinds(scs, Tail(visit), r.registered)

\* make, the visit of the symbols: the ColumnSet, every column with the id
\* of its place in the visit
column_set(scs, visit) ==
    [h \in {scs[visit[i][1]].symbols[visit[i][2]].node.e.handle : i \in DOMAIN visit} |->
        LET i == CHOOSE i \in DOMAIN visit :
                    scs[visit[i][1]].symbols[visit[i][2]].node.e.handle = h
        IN  [id |-> i - 1, t |-> scs[visit[i][1]].symbols[visit[i][2]].node.t]]

\* ConstraintSet::update_ids: the id every handle of the constraints and of
\* the computations is given
update_ids(columns, cons, reg) ==
    [h \in UNION ({ConstraintHandles(cons[i]) : i \in DOMAIN cons}
                  \cup {ComputationHandles(reg[i]) : i \in DOMAIN reg}) |->
        IF h \in DOMAIN columns THEN Some(columns[h].id) ELSE None]

\* the orders in which the visit can go through a set of symbols
Visits(syms) ==
    {v \in [1..Cardinality(syms) -> syms] : \A i, j \in DOMAIN v : v[i] = v[j] => i = j}

\* the state of make before the definitions pass
Compiling(forms) ==
    /\ asts = forms
    /\ scopes = RootScopes
    /\ scope = MAIN_MODULE
    /\ pass = "definitions"
    /\ pos = 0
    /\ failure = "none"
    /\ registered = <<>>
    /\ compiled = [constraints |-> <<>>, columns |-> <<>>, ids |-> <<>>]
    /\ TypingIdle
    /\ AliasIdle
    /\ ComputeIdle
    /\ LowerIdle

\* the pass that follows when the pass at work has handled every form; the
\* generator pass starts from the root scope again
Following(p, n) ==
    IF n < Len(asts) THEN p ELSE IF p = "definitions" THEN "generator" ELSE "finalize"

\* definitions::pass: the next form is reduced; an error fails the compile
Definitions ==
    /\ pass = "definitions"
    /\ failure = "none"
    /\ pos < Len(asts)
    /\ LET r == definitions_reduce(asts[pos + 1], scopes, scope, registered)
       IN  IF r.res.ok
           THEN /\ scopes' = r.scopes
                /\ registered' = r.registered
                /\ pos' = IF pos + 1 < Len(asts) THEN pos + 1 ELSE 0
                /\ pass' = Following("definitions", pos + 1)
                /\ scope' = IF pos + 1 < Len(asts) THEN r.scope ELSE MAIN_MODULE
                /\ UNCHANGED failure
           ELSE /\ failure' = r.res.err
                /\ UNCHANGED <<scopes, registered, pos, pass, scope>>
    /\ UNCHANGED <<asts, compiled, typingVars, aliasVars, computeVars, lowerVars>>

\* generator::pass: what the reduction r of the next form leaves
Generated_step(r) ==
    IF r.res.ok
    THEN /\ scopes' = r.scopes
         /\ scope' = r.scope
         /\ compiled' =
              IF r.constraint = NoNode
              THEN compiled
              ELSE [compiled EXCEPT !.constraints = Append(@, r.constraint)]
         /\ pos' = pos + 1
         /\ pass' = Following("generator", pos + 1)
         /\ UNCHANGED failure
    ELSE /\ failure' = r.res.err
         /\ UNCHANGED <<scopes, scope, compiled, pos, pass>>

\* generator::pass: the next form is reduced, and its constraint kept
Generate ==
    /\ pass = "generator"
    /\ failure = "none"
    /\ pos < Len(asts)
    /\ Generated_step(reduce_toplevel(asts[pos + 1], scopes, scope))
    /\ UNCHANGED <<asts, registered, typingVars, aliasVars, computeVars, lowerVars>>

\* what ConstraintSet::new can do with the ids: it sets them, and when a
\* handle names no column its id stays unset or the lookup panics
IdOutcomes(ids) == {"set"} \cup {"panic" : h \in {h \in DOMAIN ids : ids[h] = None}}

\* make, after the passes: the symbols are visited in some order, the
\* columns inserted and the computations of their kinds registered, the
\* constraints sorted, and ConstraintSet::new sets the ids
Finalize_make ==
    /\ pass = "finalize"
    /\ failure = "none"
    /\ \E visit \in Visits(ColumnSymbols(scopes)) :
          LET r == register_kinds(scopes, visit, registered)
              columns == column_set(scopes, visit)
              cons == sorted_by_size(compiled.constraints)
              ids == update_ids(columns, cons, r.registered)
          IN  IF ~r.res.ok
              THEN /\ failure' = r.res.err
                   /\ UNCHANGED <<pass, registered, compiled>>
              ELSE \E id_of \in IdOutcomes(ids) :
                      IF id_of = "set"
                      THEN /\ pass' = "done"
                           /\ registered' = r.registered
                           /\ compiled' =
                                [constraints |-> cons, columns |-> columns, ids |-> ids]
                           /\ UNCHANGED failure
                      ELSE /\ failure' = "id_of"
                           /\ UNCHANGED <<pass, registered, compiled>>
    /\ UNCHANGED <<asts, scopes, scope, pos, typingVars, aliasVars, computeVars, lowerVars>>

NextCompile == Definitions \/ Generate \/ Finalize_make

(***************************************************************************)
(* SpecPure: a source that declares the column X, the function g and the   *)
(* pure function f, then constraints that call them or not.                *)
(***************************************************************************)
XColumn == DefColumnT("X", Column("Integer"), KindAtomic)

LetOf(pairs, body) == TokenList("Let", <<pairs, body>>)

\* the bodies of the pure function f of x
PureBodies ==
    {TokenSymbol("x"), TokenValue(2), TokenSymbol("X"),
     LetOf(<<<<"y", TokenSymbol("X")>>>>, TokenSymbol("y")),
     LetOf(<<<<"y", TokenSymbol("x")>>>>, TokenSymbol("X")),
     ForOver(TokenSymbol("X")),
     ForOver(TokenSymbol("x")),
     TokenList("g", <<TokenSymbol("x")>>)}

\* the bodies of the function g of x
ImpureBodies == {TokenSymbol("x"), TokenSymbol("X")}

\* the constraints: a call of f, a call of g, the column, a constant
PureConstraints ==
    {DefConstraintT(n, body) :
        n \in {"c1", "c2"},
        body \in {TokenList("f", <<TokenValue(2)>>), TokenList("g", <<TokenValue(2)>>),
                  TokenSymbol("X"), TokenValue(2)}}

PurePrograms ==
    {<<XColumn, DefunT("g", <<"x">>, gbody), DefpurefunT("f", <<"x">>, fbody)>> \o cs :
        gbody \in ImpureBodies, fbody \in PureBodies,
        cs \in SeqsUpTo(PureConstraints, MaxConstraints)}

InitPure == \E forms \in PurePrograms : Compiling(forms)

SpecPure == InitPure /\ [][NextCompile]_vars

(***************************************************************************)
(* Claims on pure functions.                                               *)
(***************************************************************************)
\* the names the forms declare as columns
DeclaredColumns(forms) ==
    {forms[i].name : i \in {i \in DOMAIN forms : forms[i].class = "DefColumn"}}

\* the functions the forms define
DefinedFunctions(forms) ==
    {forms[i] : i \in {i \in DOMAIN forms : forms[i].class \in {"Defun", "Defpurefun"}}}

RECURSIVE ReferencesColumn(_, _)
\* the expression names a declared column, directly, in the pairs or the body
\* of a let, in the body of a loop, or through a function it calls
ReferencesColumn(e, forms) ==
    CASE e.class = "Symbol" -> e.name \in DeclaredColumns(forms)
      [] e.class = "List" /\ e.verb = "For" -> ReferencesColumn(e.args[3], forms)
      [] e.class = "List" /\ e.verb = "Let" ->
            \/ \E i \in DOMAIN e.args[1] : ReferencesColumn(e.args[1][i][2], forms)
            \/ ReferencesColumn(e.args[2], forms)
      [] e.class = "List" /\ e.verb \notin Forms ->
            \/ \E i \in DOMAIN e.args : ReferencesColumn(e.args[i], forms)
            \/ \E f \in DefinedFunctions(forms) :
                    f.name = e.verb /\ ReferencesColumn(f.body, forms)
      [] OTHER -> FALSE

\* the pure functions whose body references a column
ImpurePurefuns(forms) ==
    {f \in DefinedFunctions(forms) : f.class = "Defpurefun" /\ ReferencesColumn(f.body, forms)}

\* form i is a constraint that calls a pure function whose body references a
\* column
CallsImpurePurefun(forms, i) ==
    /\ forms[i].class = "DefConstraint"
    /\ forms[i].body.class = "List"
    /\ \E f \in ImpurePurefuns(forms) : f.name = forms[i].body.verb

\* no two constraints of the forms have one name
DistinctConstraints(forms) ==
    \A i, j \in DOMAIN forms :
        (i # j /\ forms[i].class = "DefConstraint" /\ forms[j].class = "DefConstraint")
            => forms[i].name # forms[j].name

\* the number of forms the generator pass has reduced
Generated_forms ==
    CASE pass = "generator" -> pos
      [] pass \in {"finalize", "done"} -> Len(asts)
      [] OTHER -> 0

\* C13 as stated: a source that defines a pure function whose body
\* references a column does not compile, whether the function is called or not
C13_ImpurePurefunNeverCompiles ==
    (asts # <<>> /\ ImpurePurefuns(asts) # {}) => pass # "done"

\* C13, amended: the generator pass fails with a pure-context violation on a
\* constraint that calls a pure function whose body references a column, and
\* on nothing else; a pure function that no constraint calls is not examined,
\* and a source whose only flaw it is compiles
C13_ImpurePurefunFailsWhenCalled ==
    asts # <<>> =>
        /\ \A i \in 1..Generated_forms : ~CallsImpurePurefun(asts, i)
        /\ failure = "PureContextViolation" =>
                pass = "generator" /\ CallsImpurePurefun(asts, pos + 1)
        /\ (/\ ImpurePurefuns(asts) # {}
            /\ \A i \in DOMAIN asts : ~CallsImpurePurefun(asts, i)
            /\ DistinctConstraints(asts))
                => failure = "none"

\* a constraint that calls f, whose let binds y to the column X, failed the
\* generator pass with a pure-context violation
C13_Witness ==
    /\ pass = "generator"
    /\ failure = "PureContextViolation"
    /\ asts[3] = DefpurefunT("f", <<"x">>, LetOf(<<<<"y", TokenSymbol("X")>>>>, TokenSymbol("y")))
    /\ asts[pos + 1] = DefConstraintT("c1", TokenList("f", <<TokenValue(2)>>))

(***************************************************************************)
(* SpecModule: sources that declare the constant K and the function g at   *)
(* the root, then enter the modules m and n, declare the column X and      *)
(* state constraints on X, on K and on a call of g.                        *)
(***************************************************************************)
ModuleForms ==
    {NextSource, DefModuleT("m"), DefModuleT("n"), XColumn,
     DefConstraintT("c", TokenSymbol("X")),
     DefConstraintT("k", TokenSymbol("K")),
     DefConstraintT("g", TokenList("g", <<TokenValue(2)>>))}

ModulePrograms ==
    {<<DefConstsT("K", 2), DefunT("g", <<"x">>, TokenSymbol("x"))>> \o forms :
        forms \in SeqsUpTo(ModuleForms, MaxForms) \ {<<>>}}

InitModule == \E forms \in ModulePrograms : Compiling(forms)

SpecModule == InitModule /\ [][NextCompile]_vars

(***************************************************************************)
(* Claims on modules.                                                      *)
(***************************************************************************)
RECURSIVE TextModule(_, _)
\* the module the text of the sources is in at form i: that of the last
\* defmodule before it in its source, the prelude when there is none
TextModule(forms, i) ==
    IF i <= 1
    THEN MAIN_MODULE
    ELSE CASE forms[i - 1].class = "DefModule" -> forms[i - 1].name
           [] forms[i - 1].class = "NextSource" -> MAIN_MODULE
           [] OTHER -> TextModule(forms, i - 1)

\* the columns the sources declare in module m
DeclaredIn(forms, m) ==
    {forms[i].name :
        i \in {i \in DOMAIN forms : forms[i].class = "DefColumn" /\ TextModule(forms, i) = m}}

\* the named constants of the sources, which these declare at the root
DeclaredConstants(forms) ==
    {forms[i].name : i \in {i \in DOMAIN forms : forms[i].class = "DefConsts"}}

\* form i is a constraint on a symbol
ConstraintOnSymbol(forms, i) ==
    forms[i].class = "DefConstraint" /\ forms[i].body.class = "Symbol"

\* form i is a constraint on a column the sources declare somewhere
ConstraintOnColumn(forms, i) ==
    /\ ConstraintOnSymbol(forms, i)
    /\ forms[i].body.name \in DeclaredColumns(forms)

\* C14: a constraint on a column resolves exactly when the column is
\* declared in the module the constraint is in, to the column the
\* definitions pass declared there; from the prelude or from another module
\* it is an unknown symbol; the constants and functions of the root resolve
\* from every module
C14_ColumnsResolveInTheirModule ==
    asts # <<>> =>
        /\ \A i \in 1..Generated_forms :
              ConstraintOnColumn(asts, i) =>
                  /\ asts[i].body.name \in DeclaredIn(asts, TextModule(asts, i))
                  /\ \E k \in DOMAIN compiled.constraints :
                        /\ compiled.constraints[k].handle =
                                Handle(TextModule(asts, i), asts[i].name)
                        /\ compiled.constraints[k].expr.e =
                                ColumnOf(Handle(TextModule(asts, i), asts[i].body.name),
                                         KindAtomic)
        /\ (pass = "generator" /\ failure # "none") =>
              /\ failure = "UnknownSymbol"
              /\ ConstraintOnSymbol(asts, pos + 1)
              /\ asts[pos + 1].body.name \notin DeclaredConstants(asts)
              /\ asts[pos + 1].body.name \notin DeclaredIn(asts, TextModule(asts, pos + 1))

\* the column X of module m was not resolved by a constraint of module n
C14_Witness ==
    /\ pass = "generator"
    /\ failure = "UnknownSymbol"
    /\ SubSeq(asts, 3, Len(asts)) =
            <<DefModuleT("m"), XColumn, DefModuleT("n"), DefConstraintT("c", TokenSymbol("X"))>>
    /\ pos = 5

(***************************************************************************)
(* SpecIds: sources that declare the column X, its alias A and the array   *)
(* T, sort X into P, naming it X or A, and state constraints on them.      *)
(***************************************************************************)
IdForms ==
    {DefModuleT("m"), XColumn, DefAliasT("A", "X"),
     DefArrayColumnT("T", {0, 1}, ArrayColumn("Integer")),
     DefPermutationT(<<"X">>, <<"P">>, <<TRUE>>),
     DefPermutationT(<<"A">>, <<"P">>, <<TRUE>>),
     DefConstraintT("c", TokenSymbol("X")),
     DefConstraintT("a", TokenList("Add", <<TokenSymbol("A"), TokenValue(2)>>)),
     DefConstraintT("t", TokenList("Nth", <<TokenSymbol("T"), TokenValue(0)>>))}

IdPrograms == SeqsUpTo(IdForms, MaxForms) \ {<<>>}

InitIds == \E forms \in IdPrograms : Compiling(forms)

SpecIds == InitIds /\ [][NextCompile]_vars

(***************************************************************************)
(* Claims on the ids of the handles.                                       *)
(***************************************************************************)
\* C15: after the finalization every handle of the constraints and of the
\* computations names exactly one column of the ColumnSet and carries the id
\* of that column, and the finalization does not fail on a handle
C15_HandlesCarryColumnIds ==
    /\ failure # "id_of"
    /\ pass = "done" =>
          \A h \in DOMAIN compiled.ids :
              /\ h \in DOMAIN compiled.columns
              /\ compiled.ids[h] = Some(compiled.columns[h].id)

(***************************************************************************)
(* SpecKinds: sources that declare the column X, the composite column Y    *)
(* and the interleaved column I, with an alias and a permutation that      *)
(* name Y.                                                                 *)
(***************************************************************************)
YComposite(exp) == DefColumnT("Y", Column("Integer"), KindComposite(exp))

IInterleaved(froms) == DefColumnT("I", Column("Integer"), KindInterleaved(froms))

KindForms ==
    {DefModuleT("m"), XColumn,
     YComposite(TokenList("Add", <<TokenSymbol("X"), TokenValue(2)>>)),
     YComposite(TokenSymbol("X")),
     IInterleaved(<<TokenSymbol("X"), TokenSymbol("X")>>),
     IInterleaved(<<TokenSymbol("X"), TokenSymbol("Y")>>),
     DefAliasT("A", "Y"),
     DefPermutationT(<<"X">>, <<"Y">>, <<TRUE>>)}

KindPrograms == SeqsUpTo(KindForms, MaxForms) \ {<<>>}

InitKinds == \E forms \in KindPrograms : Compiling(forms)

SpecKinds == InitKinds /\ [][NextCompile]_vars

(***************************************************************************)
(* Claims on the composite and interleaved columns.                        *)
(***************************************************************************)
\* the number of forms the definitions pass has reduced
Defined_forms == IF pass = "definitions" THEN pos ELSE Len(asts)

\* the computations of a kind registered for the target h
RegisteredFor(h, kind) ==
    {k \in DOMAIN registered : registered[k].kind = kind /\ Targets(registered[k]) = {h}}

\* C16: a column declared composite (interleaved) is declared phantom by the
\* definitions pass, is given its kind by the generator pass when it reduces
\* the declaration, and has exactly one Composite (Interleaved) computation
\* registered for its handle once make has finalized, and none before
C16_OneComputationPerDeclaredKind ==
    \A i \in DOMAIN asts :
        (asts[i].class = "DefColumn" /\ asts[i].kind.class \in {"Composite", "Interleaved"}) =>
            LET m == TextModule(asts, i)
                h == Handle(m, asts[i].name)
            IN  /\ pass = "done" => Cardinality(RegisteredFor(h, asts[i].kind.class)) = 1
                /\ pass # "done" => RegisteredFor(h, asts[i].kind.class) = {}
                /\ i <= Defined_forms =>
                      /\ asts[i].name \in DOMAIN scopes[m].symbols
                      /\ scopes[m].symbols[asts[i].name].node.e.handle = h
                      /\ scopes[m].symbols[asts[i].name].node.e.kind.class =
                            IF i <= Generated_forms THEN asts[i].kind.class ELSE "Phantom"

\* a source with a composite and an interleaved column was finalized, and
\* the computation of each is registered
C16_Witness ==
    /\ pass = "done"
    /\ asts = <<XColumn, YComposite(TokenList("Add", <<TokenSymbol("X"), TokenValue(2)>>)),
                IInterleaved(<<TokenSymbol("X"), TokenSymbol("Y")>>)>>
    /\ {registered[k].kind : k \in DOMAIN registered} = {"Composite", "Interleaved"}

(***************************************************************************)
(* SpecPermutation: a source that declares the columns X and Z and then a  *)
(* permutation whose from, to and signs lists have any lengths.            *)
(***************************************************************************)
ZColumn == DefColumnT("Z", Column("Integer"), KindAtomic)

PermutationForms ==
    {DefPermutationT(from, to, signs) :
        from \in SeqsUpTo({"X", "Z"}, MaxPairs) \ {<<>>},
        to \in SeqsUpTo({"P", "Q"}, MaxPairs) \ {<<>>},
        signs \in SeqsUpTo(BOOLEAN, MaxPairs)}

PermutationPrograms == {<<XColumn, ZColumn, p>> : p \in PermutationForms}

InitPermutation == \E forms \in PermutationPrograms : Compiling(forms)

SpecPermutation == InitPermutation /\ [][NextCompile]_vars

\* the lists of a permutation have one length
SameCardinality(from, to, signs) == Len(from) = Len(to) /\ Len(to) = Len(signs)

\* C17: a permutation the definitions pass accepted, and every Sorted
\* computation registered, has from, to and signs of one length, and the
\* definitions pass rejects with a cardinality error a declaration whose
\* lists differ in length
C17_PermutationCardinalities ==
    /\ \A k \in DOMAIN registered :
          registered[k].kind = "Sorted" =>
             SameCardinality(registered[k].froms, registered[k].tos, registered[k].signs)
    /\ \A i \in DOMAIN asts :
          (asts[i].class = "DefPermutation"
             /\ ~SameCardinality(asts[i].from, asts[i].to, asts[i].signs)) =>
                /\ i > Defined_forms
                /\ (pass = "definitions" /\ pos + 1 = i /\ failure # "none") =>
                      failure = "CardinalityMismatch"

(***************************************************************************)
(* SpecDriver: compute_all over a table of computations registered in any  *)
(* order, on columns a trace supplied or left empty.                       *)
(***************************************************************************)
\* the most computations of a table, and the most runs of compute_all
MaxComputations == 3

MaxRuns == 2

RECURSIVE compute_all_bail_from(_, _, _)
compute_all_bail_from(cs, i, log) ==
    IF i > Len(cs.computations)
    THEN [cs |-> cs, res |-> "ok", visits |-> log]
    ELSE LET r == compute(cs, i)
             seen_i == Append(log, [i |-> i, res |-> r.res])
         IN  IF r.res # "ok"
             THEN [cs |-> r.cs, res |-> r.res, visits |-> seen_i]
             ELSE compute_all_bail_from(r.cs, i + 1, seen_i)

RECURSIVE compute_all_from(_, _, _)
\* the loop of compute_all from computation i on: an error is warned of,
\* and the loop goes on
compute_all_from(cs, i, log) ==
    IF i > Len(cs.computations)
    THEN [cs |-> cs, res |-> "ok", visits |-> log]
    ELSE LET r == compute(cs, i)
         IN  compute_all_from(r.cs, i + 1, Append(log, [i |-> i, res |-> r.res]))

\* a mutant of compute_all: the first error ends the loop and is returned
compute_all_bail(cs) == compute_all_bail_from(cs, 1, <<>>)

\* ConstraintSet::compute_all
compute_all(cs) == compute_all_from(cs, 1, <<>>)

\* a call of compute_all
ComputeAll ==
    /\ runs < MaxRuns
    /\ LET r == compute_all(CS(modules, computations, _spilling))
       IN  /\ modules' = r.cs.modules
           /\ _spilling' = r.cs._spilling
           /\ visits' = r.visits
           /\ outcome' = [op |-> "compute_all", i |-> 0, res |-> r.res]
    /\ runs' = runs + 1
    /\ prior' = modules
    /\ UNCHANGED <<computations, reads, raw_len, stack, typingVars, aliasVars, frontVars>>

CycH == Handle("m", <<"cyc", 0>>)

\* a phantom column no computation fills
OrphanH == Handle("m", <<"orphan", 0>>)

\* the moduli of the cyclic column
CyclicModuli == {2, 3}

\* the computations a table is drawn from
DriverComputations ==
    {Sorted(<<X(1)>>, <<S(1)>>),
     Composite(CompH, Funcall("Add", <<ColumnExp(S(1)), ColumnExp(X(2))>>)),
     Composite(CompositeH(1), ShiftExp(OrphanH, 0 - 1)),
     Interleaved(InterleavedH, <<X(1), X(2)>>)}
    \cup {CyclicFrom(CycH, <<X(1)>>, m) : m \in CyclicModuli}

\* the tables: the computations registered, each once, in any order
DriverTables ==
    {t \in SeqsUpTo(DriverComputations, MaxComputations) \ {<<>>} :
        \A j, k \in DOMAIN t : j # k => t[j] # t[k]}

\* what a trace holds for the atomic columns and for the columns the
\* computations fill: nothing, or rows
AtomicTraces == {<<"empty">>, <<"filled", <<2, 1>>>>, <<"filled", <<1, 2, 0>>>>}

PhantomTraces == {<<"empty">>, <<"filled", <<2, 1>>>>}

\* a column of a kind as the trace left it
Imported(kind, trace, spilling) ==
    IF trace[1] = "empty"
    THEN NewColumn(kind)
    ELSE set_raw_value(NewColumn(kind), Zeros(spilling) \o trace[2], spilling)

DriverColumns(x1, x2, s1, comp, spilling) ==
    [h \in {X(1), X(2), S(1), CompH, CompositeH(1), InterleavedH, CycH, OrphanH} |->
        CASE h = X(1) -> Imported("Atomic", x1, spilling)
          [] h = X(2) -> Imported("Atomic", x2, spilling)
          [] h = S(1) -> Imported("Phantom", s1, spilling)
          [] h = CompH -> Imported("Phantom", comp, spilling)
          [] OTHER -> NewColumn("Phantom")]

InitDriver ==
    /\ \E t \in DriverTables, x1 \in AtomicTraces, x2 \in AtomicTraces,
          s1 \in PhantomTraces, comp \in PhantomTraces :
          /\ computations = t
          /\ modules = DriverColumns(x1, x2, s1, comp, SpillingOf(t, "m"))
    /\ _spilling = <<>>
    /\ outcome = NoOutcome
    /\ reads = {}
    /\ DriverIdle
    /\ TypingIdle
    /\ AliasIdle
    /\ FrontIdle

NextDriver == ComputeAll

SpecDriver == InitDriver /\ [][NextDriver]_vars

\* the targets of computation i were all computed before the run
ComputedBefore(i) == \A h \in Targets(computations[i]) : is_computed(prior[h])

\* C18: compute_all visits the computations in registration order, leaves
\* alone the targets of a computation that were already computed, and a
\* second run leaves the values of every column unchanged
C18_ComputeAllSkipsComputed ==
    runs >= 1 =>
       /\ Len(visits) = Len(computations)
       /\ \A k \in DOMAIN visits : visits[k].i = k
       /\ \A i \in DOMAIN computations :
             ComputedBefore(i) =>
                \A h \in Targets(computations[i]) : modules[h].value = prior[h].value
       /\ runs >= 2 => \A h \in DOMAIN modules : modules[h].value = prior[h].value

\* computation i run on its own on the columns compute_all found
Alone(i) == compute(CS(prior, computations, <<>>), i)

\* the errors of a computation
ComputeErrors == {"EmptyColumn", "IncoherentLengths", "CyclicTooShort", "NoComputation"}

\* C19: compute_all returns success and visits every computation whatever
\* the computations before it returned, and a computation that succeeds
\* when run on its own succeeds in the run and has its targets computed
C19_FailureDoesNotStopComputeAll ==
    runs >= 1 =>
       /\ outcome.res = "ok"
       /\ Len(visits) = Len(computations)
       /\ \A i \in DOMAIN computations :
             /\ visits[i].res \in ComputeErrors \cup {"ok"}
             /\ Alone(i).res = "ok" =>
                   /\ visits[i].res = "ok"
                   /\ \A h \in Targets(computations[i]) : is_computed(modules[h])

\* a run in which a computation failed and a later one filled its target
C19_Witness ==
    /\ runs = 1
    /\ \E k, i \in DOMAIN visits :
          /\ k < i
          /\ visits[k].res \in ComputeErrors
          /\ visits[i].res = "ok"
          /\ \A h \in Targets(computations[i]) :
                ~is_computed(prior[h]) /\ is_computed(modules[h])

(***************************************************************************)
(* SpecColumn: compute_column called on any column of the tables and       *)
(* columns of SpecDriver.                                                  *)
(***************************************************************************)
\* what a call of compute_column on h leaves
Column_step(h, r) ==
    /\ modules' = r.cs.modules
    /\ _spilling' = r.cs._spilling
    /\ outcome' = [op |-> "compute_column", i |-> 0, res |-> r.res, target |-> h]
    /\ prior' = modules
    /\ runs' = runs + 1

\* a call of compute_column, the first on the columns
ComputeColumn ==
    /\ runs = 0
    /\ \E h \in DOMAIN modules :
          Column_step(h, compute_column(CS(modules, computations, _spilling), h))
    /\ UNCHANGED <<computations, reads, visits, raw_len, stack, typingVars, aliasVars, frontVars>>

NextColumn == ComputeColumn

SpecColumn == InitDriver /\ [][NextColumn]_vars

\* compute_column has run on a column
ColumnRan == outcome.op = "compute_column"

\* C22: compute_column on a computed column succeeds and changes nothing; on
\* an empty atomic column it fails with EmptyColumn; on an empty column no
\* computation fills it fails; otherwise it returns what the computation of
\* the column returns, and when that is success the column is computed
C22_ComputeColumnCases ==
    ColumnRan =>
       LET h == outcome.target
           deps == ComputationOf(computations, h)
       IN  CASE is_computed(prior[h]) -> outcome.res = "ok" /\ modules = prior
             [] prior[h].kind = "Atomic" -> outcome.res = "EmptyColumn" /\ modules = prior
             [] deps = {} ->
                   /\ outcome.res \notin {"ok", "EmptyColumn"}
                   /\ modules = prior
             [] OTHER ->
                   /\ \E k \in deps :
                         /\ outcome.res = compute(CS(prior, computations, <<>>), k).res
                         /\ modules = compute(CS(prior, computations, <<>>), k).cs.modules
                   /\ outcome.res = "ok" => is_computed(modules[h])

\* compute_column ran the computation of an empty column and filled it
C22_Witness ==
    /\ ColumnRan
    /\ ~is_computed(prior[outcome.target])
    /\ ComputationOf(computations, outcome.target) # {}
    /\ outcome.res = "ok"
    /\ is_computed(modules[outcome.target])

\* the composite column computed last, its expression and the spilling of
\* its module
CompositeTarget == computations[outcome.i].target

CompositeExp == computations[outcome.i].exp

\* the expression of the composite at row i: a read out of range leaves the
\* evaluation without a value, and the row is then zero
CompositeAt(i) ==
    LET v == eval(CompositeExp, i, modules)
    IN  IF v = None THEN 0 ELSE unwrap(v)

\* the number of rows of the longest column of the expression
LongestDependency == SetMax({len(modules[h]) : h \in dependencies(CompositeExp)})

\* C23 as stated: the target has N + spilling rows, N the most rows of a
\* dependency; row i holds the expression at row i; the spilling rows in
\* front are zero
C23_CompositeLeadingZeros ==
    CompositeRan =>
        /\ padded_len(modules[CompositeTarget]) =
                LongestDependency + modules[CompositeTarget].spilling
        /\ \A i \in DataRows(CompositeTarget) : Row(CompositeTarget, i) = CompositeAt(i)
        /\ \A i \in AllRows(CompositeTarget) : i < 0 => Row(CompositeTarget, i) = 0

\* C23, amended: the target has N + spilling rows, and every row of it, the
\* spilling rows in front included, holds the expression at that row
C23_CompositeEvaluatesEveryRow ==
    CompositeRan =>
        /\ modules[CompositeTarget].spilling = _spilling["m"]
        /\ padded_len(modules[CompositeTarget]) =
                LongestDependency + modules[CompositeTarget].spilling
        /\ \A i \in AllRows(CompositeTarget) : Row(CompositeTarget, i) = CompositeAt(i)

\* a composite column whose spilling row is not zero
C23_Witness ==
    /\ CompositeRan
    /\ modules[CompositeTarget].spilling = 1
    /\ Row(CompositeTarget, 0 - 1) # 0

(***************************************************************************)
(* One call of ConstraintSet::compute on a cyclic computation of a table.  *)
(***************************************************************************)
Cyclic_step(i, r) ==
    /\ modules' = r.cs.modules
    /\ _spilling' = r.cs._spilling
    /\ outcome' = [op |-> "CyclicFrom", i |-> i, res |-> r.res]
    /\ prior' = modules
    /\ runs' = runs + 1

ComputeCyclic ==
    /\ runs = 0
    /\ \E i \in DOMAIN computations :
          /\ computations[i].kind = "CyclicFrom"
          /\ Cyclic_step(i, compute(CS(modules, computations, _spilling), i))
    /\ UNCHANGED <<computations, reads, visits, raw_len, stack, typingVars, aliasVars, frontVars>>

NextCyclic == ComputeCyclic

SpecCyclic == InitDriver /\ [][NextCyclic]_vars

CyclicRan == outcome.op = "CyclicFrom"

\* C24: compute_cyclic on a source of L rows, L at least the modulo, stores
\* the spilling rows, zero, and then the L values i mod modulo; on a shorter
\* source it fails and the target stays empty
C24_CyclicValues ==
    (CyclicRan /\ is_computed(prior[computations[outcome.i].froms[1]])) =>
       LET c == computations[outcome.i]
           L == len(prior[c.froms[1]])
           sp == SpillingOf(computations, "m")
       IN  IF L >= c.modulo
           THEN /\ outcome.res = "ok"
                /\ modules[c.target].spilling = sp
                /\ padded_len(modules[c.target]) = L + sp
                /\ \A r \in AllRows(c.target) :
                      Row(c.target, r) = IF r < 0 THEN 0 ELSE r % c.modulo
           ELSE /\ outcome.res = "CyclicTooShort"
                /\ ~is_computed(prior[c.target])
                /\ modules = prior

\* a cyclic column of three rows behind one spilling row
C24_Witness ==
    /\ CyclicRan
    /\ outcome.res = "ok"
    /\ computations[outcome.i].modulo = 2
    /\ modules[computations[outcome.i].target].value = <<0, 0, 1, 0>>

(***************************************************************************)
(* Calls of ConstraintSet::spilling_or_insert on the modules of a table.   *)
(***************************************************************************)
SpillingModules == {"m", "n", "o"}

\* a column of module n
N(k) == Handle("n", <<"x", k>>)

SpillingComputations ==
    {Composite(CompositeH(1), ShiftExp(X(1), 0 - 1)),
     Composite(CompositeH(2), ShiftExp(X(1), 1)),
     Composite(CompositeH(3),
               Funcall("Add", <<ShiftExp(X(1), 0 - 2), ShiftExp(X(2), 1)>>)),
     Composite(CompH, ColumnExp(X(1))),
     Composite(N(2), ShiftExp(N(1), 0 - 2)),
     Sorted(<<X(1)>>, <<S(1)>>),
     Interleaved(InterleavedH, <<X(1), X(2)>>)}

InitSpilling ==
    /\ computations \in SeqsUpTo(SpillingComputations, MaxComputations)
    /\ modules = <<>>
    /\ _spilling = <<>>
    /\ outcome = NoOutcome
    /\ reads = {}
    /\ DriverIdle
    /\ TypingIdle
    /\ AliasIdle
    /\ FrontIdle

Spilling_step(m, r) ==
    /\ _spilling' = r.cs._spilling
    /\ visits' = Append(visits, [m |-> m, res |-> r.res])
    /\ outcome' = [op |-> "spilling_or_insert", i |-> 0, res |-> r.res]
    /\ runs' = runs + 1

SpillingOrInsert ==
    /\ runs < MaxRuns
    /\ \E m \in SpillingModules :
          Spilling_step(m, spilling_or_insert(CS(modules, computations, _spilling), m))
    /\ UNCHANGED <<modules, computations, reads, prior, raw_len, stack, typingVars, aliasVars, frontVars>>

NextSpilling == SpillingOrInsert

SpecSpilling == InitSpilling /\ [][NextSpilling]_vars

\* the expressions of the composite computations that target module m
CompositesOf(m) ==
    {computations[k].exp : k \in {j \in DOMAIN computations :
        computations[j].kind = "Composite" /\ computations[j].target.module = m}}

raw_len_for_or_set(lens, m, x) ==
    IF m \in DOMAIN lens
    THEN Result(lens, lens[m])
    ELSE Result(Put(lens, m, x), x)

InitRawLen ==
    /\ ComputeIdle
    /\ TypingIdle
    /\ AliasIdle
    /\ FrontIdle

RawLen_step(m, x, r) ==
    /\ raw_len' = r.cs
    /\ prior' = raw_len
    /\ outcome' = [op |-> "raw_len_for_or_set", i |-> 0, res |-> r.res, m |-> m, x |-> x]
    /\ runs' = runs + 1

RawLenForOrSet ==
    /\ runs <= MaxRuns
    /\ \E m \in SpillingModules, x \in 0..(MaxLen + 1) :
          RawLen_step(m, x, raw_len_for_or_set(raw_len, m, x))
    /\ UNCHANGED <<modules, computations, _spilling, reads, visits, stack,
                   typingVars, aliasVars, frontVars>>

NextRawLen == RawLenForOrSet

SpecRawLen == InitRawLen /\ [][NextRawLen]_vars

RawLenRan == outcome.op = "raw_len_for_or_set"

\* the sizing run last is a later sizing of its module, with another length
LaterSizingDiffers ==
    /\ RawLenRan
    /\ outcome.m \in DOMAIN prior
    /\ prior[outcome.m] # outcome.x

\* the call run last was rejected: what it returned is no length
Rejected == outcome.res \notin Int

\* C26: the first sizing of a column of module m records raw_len[m], a
\* later sizing of a column of m with another length is rejected, and
\* raw_len[m] never changes once it is set
C26_RawLenMismatchRejected ==
    /\ RawLenRan /\ outcome.m \notin DOMAIN prior => raw_len[outcome.m] = outcome.x
    /\ LaterSizingDiffers => Rejected
    /\ RawLenRan => \A m \in DOMAIN prior : raw_len[m] = prior[m]

(***************************************************************************)
(* compute.rs: the padding of the columns a trace has filled.  The columns *)
(* are those of fill_traces, without spilling rows; ColumnSet::len and     *)
(* Column::map are in column.rs, which is not part of the sources at hand. *)
(***************************************************************************)
\* the width of usize, scaled down
UsizeBits == 6

Fr_255 == 255

\* the builds of the program: with and without overflow checks
Builds == {"debug", "release"}

RECURSIVE PowerOfTwoFrom(_, _)
PowerOfTwoFrom(p, n) == IF p >= n THEN p ELSE PowerOfTwoFrom(2 * p, n)

\* usize::next_power_of_two
next_power_of_two(n) == PowerOfTwoFrom(1, n)

\* the subtraction of usize without overflow checks
wrapping_sub(a, b) == (a - b) % Pow(2, UsizeBits)

\* ColumnSet::len: the length of the longest column that holds a value
ColumnSet_len(cols) ==
    SetMax({Len(cols[h].value) : h \in {k \in DOMAIN cols : is_computed(cols[k])}} \cup {0})

\* xs.reverse(); xs.resize(pad_to, Fr::zero()); xs.reverse()
resize_front(xs, pad_to) ==
    IF Len(xs) >= pad_to
    THEN SubSeq(xs, Len(xs) - pad_to + 1, Len(xs))
    ELSE Zeros(pad_to - Len(xs)) \o xs

NotH == Handle("binary", <<"NOT", 0>>)

\* pad: the columns after it and its result; the subtraction max_len - pad_to
\* overflows, which panics in a build with overflow checks and wraps in one
\* without
pad(cols, build) ==
    LET max_len == ColumnSet_len(cols)
        pad_to == next_power_of_two(max_len + 1)
        padded == wrapping_sub(max_len, pad_to)
        resized == [h \in DOMAIN cols |->
                       IF is_computed(cols[h])
                       THEN [cols[h] EXCEPT !.value = resize_front(@, pad_to)]
                       ELSE cols[h]]
    IN  IF max_len = 0 THEN Result(cols, "ok")
        ELSE IF max_len < pad_to /\ build = "debug" THEN Result(cols, "panic")
        ELSE Result([h \in DOMAIN cols |->
                        IF h = NotH /\ is_computed(cols[h])
                        THEN [resized[h] EXCEPT !.value =
                                [k \in DOMAIN @ |-> IF k <= padded THEN Fr_255 ELSE @[k]]]
                        ELSE resized[h]], "ok")

\* what a trace holds for a column: nothing, or rows of values
PadTraces == {<<"empty">>} \cup {<<"filled", xs>> : xs \in SeqsUpTo({1, 2}, MaxLen + 1)}

InitPad ==
    /\ \E not \in PadTraces, x1 \in PadTraces, x2 \in PadTraces :
          modules = (NotH :> Imported("Atomic", not, 0)) @@
                    (X(1) :> Imported("Atomic", x1, 0)) @@
                    (X(2) :> Imported("Atomic", x2, 0))
    /\ computations = <<>>
    /\ _spilling = <<>>
    /\ outcome = NoOutcome
    /\ reads = {}
    /\ DriverIdle
    /\ TypingIdle
    /\ AliasIdle
    /\ FrontIdle

Pad_step(r) ==
    /\ modules' = r.cs
    /\ prior' = modules
    /\ outcome' = [op |-> "pad", i |-> 0, res |-> r.res]
    /\ runs' = runs + 1

Pad ==
    /\ runs = 0
    /\ \E build \in Builds : Pad_step(pad(modules, build))
    /\ UNCHANGED <<computations, _spilling, reads, visits, raw_len, stack,
                   typingVars, aliasVars, frontVars>>

NextPad == Pad

SpecPad == InitPad /\ [][NextPad]_vars

PadRan == outcome.op = "pad"

IsPowerOfTwo(n) == n = next_power_of_two(n)

\* the rows pad has put in front of column h
Prepended(h) == Len(modules[h].value) - Len(prior[h].value)

\* the columns the trace filled have one length
EvenTrace ==
    \A h \in DOMAIN prior :
       is_computed(prior[h]) => Len(prior[h].value) = ColumnSet_len(prior)

\* C27: padding a filled trace brings every column to a power-of-two length
\* by prepending rows: the values the column had are its trailing rows, the
\* number of rows prepended is pad_to - max_len, not negative, and the rows
\* prepended are 0, or 255 in binary.NOT
C27_PadPrependsRows ==
    (PadRan /\ EvenTrace /\ ColumnSet_len(prior) > 0) =>
       /\ outcome.res = "ok"
       /\ \A h \in DOMAIN modules :
             is_computed(prior[h]) =>
                /\ IsPowerOfTwo(Len(modules[h].value))
                /\ Prepended(h) >= 0
                /\ Prepended(h) = next_power_of_two(ColumnSet_len(prior) + 1)
                                      - ColumnSet_len(prior)
                /\ SubSeq(modules[h].value, Prepended(h) + 1, Len(modules[h].value))
                      = prior[h].value
                /\ \A k \in 1..Prepended(h) :
                      modules[h].value[k] = IF h = NotH THEN Fr_255 ELSE 0

\* the index in the table of the computation of a kind
IndexOf(kind) == CHOOSE k \in DOMAIN computations : computations[k].kind = kind

\* the table with the signs of its permutation declared as signs
WithSigns(signs) ==
    [computations EXCEPT ![IndexOf("SortingConstraints")].signs = signs]

\* C30: the rows compute_sorted produces are in ascending lexicographic
\* order whatever the signs declared, and a Sorted computation over the
\* same columns with any other signs produces the same columns
C30_SortedIgnoresSigns ==
    SortedRan =>
        LET tos == TheComputation("Sorted").tos
            rows == DataRows(tos[1])
        IN  /\ \A i \in rows, j \in rows :
                  i < j => ~LexLess(Key(tos, j), Key(tos, i))
            /\ \A signs \in [DOMAIN tos -> BOOLEAN] :
                  LET r == compute(CS(modules, WithSigns(signs), _spilling), IndexOf("Sorted"))
                  IN  /\ r.res = "ok"
                      /\ \A k \in DOMAIN tos : r.cs.modules[tos[k]] = modules[tos[k]]

\* a permutation declared descending on its only column, sorted ascending
C30_Witness ==
    /\ outcome.op = "Sorted"
    /\ outcome.res = "ok"
    /\ TheComputation("SortingConstraints").signs = <<FALSE>>
    /\ modules[X(1)].value = <<2, 1>>
    /\ modules[S(1)].value = <<1, 2>>

(***************************************************************************)
(* Calls of ConstraintSet::compute, one computation at a time, on tables   *)
(* whose computations read the columns other computations fill.            *)
(***************************************************************************)
\* computations that depend on one another: the sorted column of x_1, the
\* auxiliaries of the sort, a composite over the sorted column, the
\* interleaving of the sorted column and x_2, a cycle over the interleaving
OrderComputations ==
    {Sorted(<<X(1)>>, <<S(1)>>),
     SortingConstraints(<<At(1)>>, EqH, DeltaH, [b \in 1..NDeltaBytes |-> DeltaByte(b)],
                        <<TRUE>>, <<X(1)>>, <<S(1)>>),
     Composite(CompH, Funcall("Add", <<ColumnExp(S(1)), ColumnExp(X(2))>>)),
     Interleaved(InterleavedH, <<S(1), X(2)>>),
     CyclicFrom(CycH, <<InterleavedH>>, 2)}

\* the tables: the computations registered, each once, in any order
OrderTables ==
    {t \in SeqsUpTo(OrderComputations, MaxComputations) \ {<<>>} :
        \A j, k \in DOMAIN t : j # k => t[j] # t[k]}

OrderColumns(x1, x2) ==
    [h \in UNION {Targets(c) : c \in OrderComputations} \cup {X(1), X(2)} |->
        CASE h = X(1) -> Imported("Atomic", x1, 0)
          [] h = X(2) -> Imported("Atomic", x2, 0)
          [] OTHER -> NewColumn("Phantom")]

InitOrder ==
    /\ \E t \in OrderTables, x1 \in AtomicTraces, x2 \in AtomicTraces :
          /\ computations = t
          /\ modules = OrderColumns(x1, x2)
    /\ _spilling = <<>>
    /\ outcome = NoOutcome
    /\ reads = {}
    /\ DriverIdle
    /\ TypingIdle
    /\ AliasIdle
    /\ FrontIdle

One_step(i, r) ==
    /\ modules' = r.cs.modules
    /\ _spilling' = r.cs._spilling
    /\ outcome' = [op |-> "compute", i |-> i, res |-> r.res]
    /\ prior' = modules
    /\ runs' = runs + 1

ComputeOne ==
    /\ runs < MaxRuns
    /\ \E i \in DOMAIN computations :
          One_step(i, compute(CS(modules, computations, _spilling), i))
    /\ UNCHANGED <<computations, reads, visits, raw_len, stack, typingVars, aliasVars, frontVars>>

NextOrder == ComputeOne

SpecOrder == InitOrder /\ [][NextOrder]_vars

\* the columns a computation reads
Sources(comp) ==
    CASE comp.kind = "Composite" -> dependencies(comp.exp)
      [] comp.kind \in {"Interleaved", "Sorted", "CyclicFrom"} -> Range(comp.froms)
      [] comp.kind = "SortingConstraints" -> Range(comp.froms) \cup Range(comp.sorted)

\* the computations that wrote a column during the call run last
Wrote == {k \in DOMAIN computations :
             \E h \in Targets(computations[k]) : modules[h] # prior[h]}

\* C28: when a computation writes its columns, the columns it reads are
\* computed, whatever the order the computations were registered in
C28_SourcesComputedFirst ==
    outcome.op = "compute" =>
       \A k \in Wrote : \A h \in Sources(computations[k]) : is_computed(modules[h])

\* the cycle is registered first and the sort last: one call on the cycle
\* computes the sorted column and the interleaving before it
C28_Witness ==
    /\ outcome = [op |-> "compute", i |-> 1, res |-> "ok"]
    /\ runs = 1
    /\ computations[1].kind = "CyclicFrom"
    /\ {computations[k].kind : k \in Wrote} = {"CyclicFrom", "Interleaved", "Sorted"}

(***************************************************************************)
(* The recursion of compute_all, step by step: compute(i) calls            *)
(* compute_column on each column computation i reads, and compute_column   *)
(* calls compute on the computation that fills a column not yet computed.  *)
(* stack holds the calls of compute in progress; a call is at the source   *)
(* it handles next.  The stack of the process is finite: a call beyond     *)
(* StackLimit frames aborts the process.                                   *)
(***************************************************************************)
StackLimit == MaxComputations + 2

\* the columns a computation calls compute_column on, in order
SourceSeq(comp) ==
    CASE comp.kind = "Composite" -> SeqOf(dependencies(comp.exp))
      [] comp.kind \in {"Interleaved", "Sorted", "CyclicFrom"} -> comp.froms
      [] comp.kind = "SortingConstraints" -> comp.froms \o comp.sorted

\* computations that depend on themselves, directly or through another
\* derived column, and computations that do not
RecursionComputations ==
    {Composite(CompositeH(1), ColumnExp(CompositeH(1))),
     Composite(CompositeH(2), Funcall("Add", <<ColumnExp(X(1)), ColumnExp(CompositeH(3))>>)),
     Composite(CompositeH(3), ColumnExp(CompositeH(2))),
     Interleaved(InterleavedH, <<X(1), InterleavedH>>),
     Sorted(<<X(1)>>, <<S(1)>>),
     Composite(CompH, Funcall("Add", <<ColumnExp(S(1)), ColumnExp(X(1))>>))}

RecursionTables ==
    {t \in SeqsUpTo(RecursionComputations, MaxComputations) \ {<<>>} :
        \A j, k \in DOMAIN t : j # k => t[j] # t[k]}

RecursionColumns(x1, c1) ==
    [h \in UNION {Targets(c) : c \in RecursionComputations} \cup {X(1)} |->
        CASE h = X(1) -> Imported("Atomic", x1, 0)
          [] h = CompositeH(1) -> Imported("Phantom", c1, 0)
          [] OTHER -> NewColumn("Phantom")]

InitRecursion ==
    /\ \E t \in RecursionTables, x1 \in AtomicTraces, c1 \in PhantomTraces :
          /\ computations = t
          /\ modules = RecursionColumns(x1, c1)
    /\ _spilling = <<>>
    /\ outcome = NoOutcome
    /\ reads = {}
    /\ DriverIdle
    /\ TypingIdle
    /\ AliasIdle
    /\ FrontIdle

Frame(i) == [i |-> i, next |-> 1]

Top == stack[Len(stack)]

\* the process runs, and a call of compute is in progress
Running == outcome.res # "StackOverflow" /\ stack # <<>>

\* compute(i) does nothing: the target of a composite or an interleaved
\* computation is computed
Guarded(comp) ==
    comp.kind \in {"Composite", "Interleaved"} /\ is_computed(modules[comp.target])

\* the call at the top is at a source: the source
AtSource ==
    /\ Running
    /\ ~Guarded(computations[Top.i])
    /\ Top.next <= Len(SourceSeq(computations[Top.i]))

TopSource == SourceSeq(computations[Top.i])[Top.next]

\* the call at the top returns Ok(()) to compute_column, which returns it to
\* the call below, or to compute_all
Returned == 
    IF Len(stack) = 1 THEN <<>>
    ELSE [SubSeq(stack, 1, Len(stack) - 1) EXCEPT ![Len(stack) - 1].next = @ + 1]

\* compute_all: the call of compute on the next computation of the table
EnterCompute ==
    /\ outcome.res # "StackOverflow"
    /\ stack = <<>>
    /\ runs < Len(computations)
    /\ stack' = <<Frame(runs + 1)>>
    /\ outcome' = [op |-> "compute", i |-> runs + 1, res |-> "running"]
    /\ UNCHANGED <<modules, computations, _spilling, reads, visits, runs, prior, raw_len,
                   typingVars, aliasVars, frontVars>>

\* compute_column on a computed column
ColumnComputed ==
    /\ AtSource
    /\ is_computed(modules[TopSource])
    /\ stack' = [stack EXCEPT ![Len(stack)].next = @ + 1]
    /\ UNCHANGED <<modules, computations, _spilling, outcome, reads, visits, runs, prior,
                   raw_len, typingVars, aliasVars, frontVars>>

\* compute_column on an empty column that is atomic or that no computation
\* fills: the error goes up through every call to compute_all, which warns
ColumnFails ==
    /\ AtSource
    /\ ~is_computed(modules[TopSource])
    /\ modules[TopSource].kind = "Atomic" \/ ComputationOf(computations, TopSource) = {}
    /\ stack' = <<>>
    /\ runs' = runs + 1
    /\ outcome' = [op |-> "compute", i |-> runs + 1,
                   res |-> IF modules[TopSource].kind = "Atomic"
                           THEN "EmptyColumn" ELSE "NoComputation"]
    /\ UNCHANGED <<modules, computations, _spilling, reads, visits, prior, raw_len,
                   typingVars, aliasVars, frontVars>>

\* the computation compute_column calls compute on
Callee == CHOOSE k \in ComputationOf(computations, TopSource) : TRUE

Descends ==
    /\ AtSource
    /\ ~is_computed(modules[TopSource])
    /\ modules[TopSource].kind # "Atomic"
    /\ ComputationOf(computations, TopSource) # {}

\* compute_column on an empty column a computation fills: a call of compute
ColumnComputes ==
    /\ Descends
    /\ Len(stack) < StackLimit
    /\ stack' = Append(stack, Frame(Callee))
    /\ UNCHANGED <<modules, computations, _spilling, outcome, reads, visits, runs, prior,
                   raw_len, typingVars, aliasVars, frontVars>>

\* the same with the stack full: the process aborts
StackOverflow ==
    /\ Descends
    /\ Len(stack) = StackLimit
    /\ outcome' = [op |-> "compute", i |-> runs + 1, res |-> "StackOverflow"]
    /\ UNCHANGED <<modules, computations, _spilling, reads, visits, runs, prior, raw_len,
                   stack, typingVars, aliasVars, frontVars>>

Written_step(r) ==
    /\ modules' = r.cs.modules
    /\ _spilling' = r.cs._spilling
    /\ IF r.res = "ok"
       THEN /\ stack' = Returned
            /\ IF Len(stack) = 1
               THEN /\ runs' = runs + 1
                    /\ outcome' = [op |-> "compute", i |-> runs + 1, res |-> "ok"]
               ELSE UNCHANGED <<runs, outcome>>
       ELSE /\ stack' = <<>>
            /\ runs' = runs + 1
            /\ outcome' = [op |-> "compute", i |-> runs + 1, res |-> r.res]

\* every source of the call at the top is computed, or the call is guarded:
\* the rest of compute(i), which writes the targets or fails
ComputeWrites ==
    /\ Running
    /\ ~AtSource
    /\ Written_step(compute(CS(modules, computations, _spilling), Top.i))
    /\ UNCHANGED <<computations, reads, visits, prior, raw_len,
                   typingVars, aliasVars, frontVars>>

NextRecursion ==
    \/ EnterCompute
    \/ ColumnComputed
    \/ ColumnFails
    \/ ColumnComputes
    \/ StackOverflow
    \/ ComputeWrites

SpecRecursion == InitRecursion /\ [][NextRecursion]_vars

\* C29: compute_all terminates on every computation table: the calls of
\* compute in progress are calls on different computations, so that the
\* recursion ends at computed or atomic columns and never exhausts the stack
C29_ComputeAllTerminates ==
    /\ outcome.res # "StackOverflow"
    /\ \A j, k \in DOMAIN stack : j # k => stack[j].i # stack[k].i

(***************************************************************************)
(* The insertions into one scope (SymbolTable of parser.rs: its symbols    *)
(* and its functions), and the declaration of the target columns of a      *)
(* permutation (compiler/definitions.rs), which inserts a column symbol    *)
(* and turns its error into a warning.                                     *)
(***************************************************************************)
MaxInserts == 2

NoFunction == [class |-> "None"]

\* Function with FunctionClass::UserDefined, and with FunctionClass::Alias
UserFunction(name) == [class |-> "UserDefined", name |-> name]

FunctionAlias(name, to) == [class |-> "Alias", name |-> name, to |-> to]

\* Constraint::Const
ConstNode(value) == [class |-> "Const", value |-> value]

\* SymbolTable::new_root with its functions
NewFuncTable == [funcs |-> [n \in Names |-> NoFunction]] @@ NewTable("none", NoContext)

\* SymbolTable::insert_func
insert_func(tabs, s, f) ==
    IF tabs[s].funcs[f.name] # NoFunction
    THEN [tabs |-> tabs, res |-> Err("DuplicateDefinition")]
    ELSE [tabs |-> [tabs EXCEPT ![s].funcs[f.name] = f], res |-> Ok(NoNode)]

\* SymbolTable::insert_funalias: the name is looked up among the symbols
\* and inserted among the functions
insert_funalias(tabs, s, from, to) ==
    IF tabs[s].symbols[from] # NoSymbol
    THEN [tabs |-> tabs, res |-> Err("DuplicateDefinition")]
    ELSE [tabs |-> [tabs EXCEPT ![s].funcs[from] = FunctionAlias(from, to)],
          res |-> Ok(NoNode)]

\* SymbolTable::insert_constant
insert_constant(tabs, s, name, value) ==
    IF tabs[s].symbols[name] # NoSymbol
    THEN [tabs |-> tabs, res |-> Err("DuplicateDefinition")]
    ELSE [tabs |-> [tabs EXCEPT ![s].symbols[name] = Final(ConstNode(value))],
          res |-> Ok(NoNode)]

\* definitions.rs, Token::DefPermutation: the target column is inserted,
\* `.unwrap_or_else(|e| warn!(...))`
insert_target(tabs, s, to) ==
    [tabs |-> insert_symbol(tabs, s, to, ColumnNode(ModuleOf(s), to)).tabs,
     res |-> Ok(NoNode)]

InitInsert ==
    /\ tables = [s \in {"m"} |-> NewFuncTable]
    /\ ctx = "m"
    /\ phase = "definitions"
    /\ err = "none"
    /\ seen = FALSE
    /\ last = NoForm
    /\ constraints = <<>>
    /\ TypingIdle
    /\ ComputeIdle
    /\ FrontIdle

\* an insertion of a kind under a name, the tables before it, its result
Inserted_step(kind, name, r) ==
    /\ phase = "definitions"
    /\ last.n < MaxInserts
    /\ tables' = r.tabs
    /\ err' = IF r.res.ok THEN "none" ELSE r.res.err
    /\ last' = [op |-> kind, n |-> last.n + 1, pairs |-> <<name>>, before |-> tables]
    /\ UNCHANGED <<ctx, phase, seen, constraints, typingVars, computeVars, frontVars>>

InsertSymbol ==
    \E name \in Names :
       Inserted_step("symbol", name,
                     insert_symbol(tables, ctx, name, ColumnNode(ModuleOf(ctx), name)))

InsertConstant ==
    \E name \in Names :
       Inserted_step("constant", name, insert_constant(tables, ctx, name, 1))

InsertAlias ==
    \E from \in Names, to \in Names :
       Inserted_step("alias", from, insert_alias(tables, ctx, from, to))

InsertFunc ==
    \E name \in Names :
       Inserted_step("function", name, insert_func(tables, ctx, UserFunction(name)))

InsertFunalias ==
    \E from \in Names, to \in Names :
       Inserted_step("function alias", from, insert_funalias(tables, ctx, from, to))

InsertTarget ==
    \E to \in Names :
       Inserted_step("permutation target", to, insert_target(tables, ctx, to))

NextInsert ==
    \/ InsertSymbol
    \/ InsertConstant
    \/ InsertAlias
    \/ InsertFunc
    \/ InsertFunalias
    \/ InsertTarget

SpecInsert == InitInsert /\ [][NextInsert]_vars

InsertKinds ==
    {"symbol", "constant", "alias", "function", "function alias", "permutation target"}

\* the name of the insertion run last was bound in the scope before it:
\* among the functions for a function or a function alias, among the
\* symbols for the other kinds
WasBound ==
    IF last.op \in {"function", "function alias"}
    THEN last.before[ctx].funcs[last.pairs[1]] # NoFunction
    ELSE last.before[ctx].symbols[last.pairs[1]] # NoSymbol

\* C21: an insertion, of any kind, of a name that is bound in the scope
\* already is an error and leaves the scope as it was
C21_DuplicateInsertFails ==
    (last.op \in InsertKinds /\ WasBound) =>
       /\ err # "none"
       /\ tables = last.before

====
